---------------------------- MODULE Spec2Model ----------------------------
(***************************************************************************)
(* Verification model of the guard/backup bot.                             *)
(*                                                                         *)
(*   SpecDebounce   AuditManager.createAuditEvent (debounceMap, timers)    *)
(*   SpecViolation  GuardManager.handleViolation and executeAction         *)
(*   SpecRestore    BackupManager.restore<Kind> and the restoreDeleted<Kind>*)
(*                  functions of GuardManager                              *)
(*   SpecGuard      the event handlers of GuardManager, step by await      *)
(*   SpecSync       BackupManager.fastAssignRoleToMembers and              *)
(*                  GuardManager.distributeRoleToMembersFromData           *)
(*   SpecCounter    GuardManager.handleInviteCreate / handleWebhookUpdate  *)
(*                  over the violation counter of RedisManager             *)
(*   SpecWhitelist  GuardManager.isUserWhitelisted / isActionWhitelisted / *)
(*                  isRoleWhitelisted over whitelistCache                  *)
(*                                                                         *)
(* Time is a discrete clock `now` counted in seconds; a setTimeout is a    *)
(* record in a timer set that becomes runnable once now reaches its due    *)
(* time, and the clock does not pass a runnable timer.                     *)
(***************************************************************************)
EXTENDS Integers, Sequences, FiniteSets, TLC

VARIABLES
  now,            \* Date.now(), in seconds
  debounceMap,    \* AuditManager.debounceMap: the keys present in the map
  dbTimers,       \* the armed setTimeout handles of debounceMap: [key, due]
  dbSaving,       \* keys whose timeout callback is awaiting saveAuditEvent
  dbLast,         \* per key: time of the latest createAuditEvent call
  dbCalls,        \* per key: calls of the current burst (each within DEBOUNCE_DELAY of the one before)
  dbFired,        \* per key: timeout callbacks run for the current burst
  configs,        \* GuardManager.configs.get(targetGuildId)
  hvPc,           \* handleViolation: position of the call in flight
  hvArgs,         \* handleViolation: its arguments
  hvActions,      \* handleViolation: the local `actions`
  hvIdx,          \* handleViolation: index of the next action of the for loop
  hvTrace,        \* the executeAction calls made, in order, with their outcome
  hvPosts,        \* channel.send calls made by sendNotification
  backups,        \* the backups table of the guild, ORDER BY timestamp DESC
  rejects,        \* names of the entities whose create/edit the platform rejects
  live,           \* guild.roles/channels/emojis/stickers caches: the live entities
  nextId,         \* number of the next id the platform assigns
  memberRoles,    \* member.roles.cache: the (member, role id) grants
  rsLast,         \* the latest restore operation: what was asked and what it did
  selfActions,    \* GuardManager.selfActions
  selfTimers,     \* the setTimeout handles that delete selfActions keys: [key, due]
  gEvents,        \* gateway events emitted and not yet delivered for the last time
  gSeq,           \* number of the next gateway event
  gUserOps,       \* changes the members of the guild have made
  handlers,       \* the handler invocations, in the order of their delivery
  audit,          \* per event type: the latest audit log entry of the guild
  restorationInProgress, \* GuardManager.restorationInProgress
  lockTimers,     \* the setTimeout handles that release restoration locks
  recentRoleChanges,     \* GuardManager.recentRoleChanges: [key, timestamp]
  wlStore,        \* the active, unexpired rows of the whitelist table
  mutations,      \* the create, edit and delete calls the handlers have issued
  guildMembers,   \* guild.members: the members that are in the guild
  sync,           \* fastAssignRoleToMembers: the call in flight and its locals
  dist,           \* distributeRoleToMembersFromData: the call in flight and its locals
  redis,          \* per user: the guard:violations key of the user, its value and expiry
  ivHandlers,     \* the handleInviteCreate / handleWebhookUpdate invocations, in order
  hvWrites,       \* the violation records written: to the guard_violations table and to the search index
  whitelistCache, \* GuardManager.whitelistCache: per cache key, the entry or none
  wlChecks,       \* the isUserWhitelisted / isActionWhitelisted calls made, in order
  wlFlipAt,       \* per key: when its whitelist row was activated or deactivated, -1 if never
  lkHandlers,     \* the handleRoleUpdate / handleChannelDelete invocations that reach for a lock
  lockAt,         \* per restoration key: when the lock now held was taken, -1 if it is free
  lockOwner,      \* per restoration key: the invocation that last added the lock now held, 0 if it is free
  fullCleanupDue, \* when the interval of performFullCleanup fires next
  upLive,         \* per kind: the tracked fields of the live entity the update handlers guard
  upData,         \* per kind: the fields of that entity in the latest backup
  upLast,         \* the latest update notification and what its handler did
  markAt,         \* per self-action key: when markSelfAction last ran for it, -1 if never
  engine,         \* GuardManager as a service: isRunning, the start() calls awaiting
                  \* loadConfigurations, the listener sets and interval sets registered
  engineLog       \* the gateway events delivered to the client, with what the engine did

dbVars == <<debounceMap, dbTimers, dbSaving, dbLast, dbCalls, dbFired>>
hvVars == <<hvPc, hvArgs, hvActions, hvIdx, hvTrace, hvPosts>>
rsVars == <<backups, rejects, live, nextId, memberRoles, rsLast>>
saVars == <<selfActions, selfTimers>>
guVars == <<gEvents, gSeq, gUserOps, handlers, audit, restorationInProgress, lockTimers,
            recentRoleChanges, wlStore, mutations>>
syVars == <<guildMembers, sync, dist>>
ctVars == <<redis, ivHandlers>>
wcVars == <<whitelistCache, wlChecks, wlFlipAt>>
lkVars == <<lkHandlers, lockAt, lockOwner, fullCleanupDue>>
upVars == <<upLive, upData, upLast>>
zVars == <<markAt, engine, engineLog>>
xVars == <<syVars, ctVars, hvWrites, wcVars, lkVars, upVars, zVars>>
vars == <<now, dbVars, configs, hvVars, rsVars, saVars, guVars, xVars>>
othersDb == <<configs, hvVars, rsVars, saVars, guVars, xVars>>
othersHv == <<now, dbVars, configs, rsVars, saVars, guVars, xVars>>
othersRs == <<now, dbVars, configs, hvVars, guVars, xVars>>
othersGu == <<now, dbVars, configs, hvVars, xVars>>

(***************************************************************************)
(* Bounds                                                                  *)
(***************************************************************************)
MaxTime == 4
MaxCalls == 3
NumBackups == 2
MaxCreates == 2
MaxDeletes == 3
MaxMarks == 1
MaxUserOps == 2
MaxHandlers == 2
MaxRedeliveries == 1
MaxEvents == 8
BATCH_SIZE == 2          \* members per batch (50 in the source, scaled down)
CONCURRENT_BATCHES == 2  \* batches per round (5 in the source, scaled down)
MaxLeaves == 1           \* members that leave the guild while a sync runs
MaxCreations == 3        \* invite and webhook creation events
maxInviteCreations == 2  \* config.limits.maxInviteCreations (10 in the source, scaled down)
timeWindow == 2          \* config.limits.timeWindow (300 s in the source, scaled down)
VIOLATION_TTL == 3       \* ttl of incrementUserViolationCount (3600 s in the source, scaled down)
WHITELIST_CACHE_TTL == 2 \* GuardManager.WHITELIST_CACHE_TTL (30 s in the source, scaled down)
MaxChecks == 2           \* whitelist sub-check calls

(***************************************************************************)
(* GuardManager: configuration and handleViolation                         *)
(***************************************************************************)
Severities == {"low", "medium", "high", "critical"}

\* GuardAction
GuardActions == {"log", "notify", "kick", "ban", "remove_role", "timeout", "restore", "lockdown"}

EntityClasses == {"channels", "roles", "emojis", "stickers", "webhooks", "invites", "members", "guild"}

\* the GuardConfig that loadConfigurations saves when none is stored;
\* auditChannelId is whether an audit channel is configured and exists
createDefaultConfig ==
  [ loaded |-> TRUE,
    enabled |-> TRUE,
    auditChannelId |-> FALSE,
    whitelistUsers |-> {},
    whitelistRoles |-> {},
    protection |-> EntityClasses,
    onViolation |-> <<"log", "notify", "restore">>,
    onSuspiciousActivity |-> <<"log", "notify">> ]

\* configs.get(guild.id) finds nothing
NoConfig == [createDefaultConfig EXCEPT !.loaded = FALSE]

\* the action lists an operator may configure (updateConfig)
ActionLists ==
  { <<"log", "notify", "restore">>, <<"log", "notify">>, <<"kick", "lockdown">>, <<>> }

\* handleViolation, line 1077: the action list chosen for a severity
ActionsFor(config, severity) ==
  IF severity = "critical" THEN config.onViolation ELSE config.onSuspiciousActivity

NoArgs == [severity |-> "low", violationType |-> "", userId |-> ""]

InitViolation ==
  /\ hvPc = "idle"
  /\ hvArgs = NoArgs
  /\ hvActions = <<>>
  /\ hvIdx = 1
  /\ hvTrace = <<>>
  /\ hvPosts = 0

\* sendNotification: one channel.send when config.auditChannelId names a channel
\* of the guild; a rejected send is caught and logged
PostsOf(config) == IF config.loaded /\ config.auditChannelId THEN 1 ELSE 0

\* handleViolation up to the first executeAction: config lookup and list choice
handleViolationCall(severity, violationType, userId) ==
  /\ hvPc = "idle"
  /\ hvArgs' = [severity |-> severity, violationType |-> violationType, userId |-> userId]
  /\ hvTrace' = <<>>
  /\ hvPosts' = 0
  /\ hvIdx' = 1
  /\ IF ~configs.loaded
       THEN hvPc' = "done" /\ hvActions' = <<>>
       ELSE /\ hvActions' = ActionsFor(configs, severity)
            /\ hvPc' = IF ActionsFor(configs, severity) = <<>> THEN "notify" ELSE "actions"
  /\ UNCHANGED othersHv

\* an executeAction whose failure ends the loop of handleViolation
executeActionAbortOnFailure(ok) ==
  /\ hvPc = "actions"
  /\ hvTrace' = Append(hvTrace, [action |-> hvActions[hvIdx], ok |-> ok])
  /\ hvPosts' = IF hvActions[hvIdx] = "notify" /\ ok THEN hvPosts + PostsOf(configs) ELSE hvPosts
  /\ hvIdx' = hvIdx + 1
  /\ hvPc' = IF ~ok THEN "done" ELSE IF hvIdx = Len(hvActions) THEN "notify" ELSE "actions"
  /\ UNCHANGED <<othersHv, hvArgs, hvActions>>

\* one iteration of the for loop: executeAction runs the action inside its own
\* try/catch; ok is whether the action's platform call was accepted
executeAction(ok) ==
  /\ hvPc = "actions"
  /\ hvTrace' = Append(hvTrace, [action |-> hvActions[hvIdx], ok |-> ok])
  /\ hvPosts' = IF hvActions[hvIdx] = "notify" /\ ok THEN hvPosts + PostsOf(configs) ELSE hvPosts
  /\ hvIdx' = hvIdx + 1
  /\ hvPc' = IF hvIdx = Len(hvActions) THEN "notify" ELSE "actions"
  /\ UNCHANGED <<othersHv, hvArgs, hvActions>>

\* the sendNotification after the loop, line 1083
handleViolationNotify(ok) ==
  /\ hvPc = "notify"
  /\ hvPosts' = IF ok THEN hvPosts + PostsOf(configs) ELSE hvPosts
  /\ hvPc' = "done"
  /\ UNCHANGED <<othersHv, hvArgs, hvActions, hvIdx, hvTrace>>

\* handleViolation returns to its caller
handleViolationReturn ==
  /\ hvPc = "done"
  /\ hvPc' = "idle"
  /\ UNCHANGED <<othersHv, hvArgs, hvActions, hvIdx, hvTrace, hvPosts>>

ViolationTypes == {"role_delete_blocked", "role_update_blocked", "guild_delete"}

NextViolation ==
  \/ \E s \in Severities, t \in ViolationTypes : handleViolationCall(s, t, "U1")
  \/ \E ok \in BOOLEAN : executeAction(ok)
  \/ \E ok \in BOOLEAN : handleViolationNotify(ok)
  \/ handleViolationReturn

(***************************************************************************)
(* AuditManager: createAuditEvent and its debounce map                     *)
(***************************************************************************)
\* AuditManager.DEBOUNCE_DELAY = 1000 ms, in seconds
DEBOUNCE_DELAY == 1

\* the fingerprints guild-actionType-targetId-executorId-changesHash
DebounceKeys == {"k1", "k2"}

InitDebounce ==
  /\ debounceMap = {}
  /\ dbTimers = {}
  /\ dbSaving = {}
  /\ dbLast = [k \in DebounceKeys |-> 0]
  /\ dbCalls = [k \in DebounceKeys |-> 0]
  /\ dbFired = [k \in DebounceKeys |-> 0]

\* a call continues the burst when it arrives within the window of the call before it
InBurst(k) == dbCalls[k] > 0 /\ now < dbLast[k] + DEBOUNCE_DELAY

\* createAuditEvent up to its return: a key already in the map has its timer
\* cleared and the call returns; otherwise a timer is armed and stored.
createAuditEvent(k) ==
  /\ IF InBurst(k) THEN dbCalls[k] < MaxCalls ELSE TRUE
  /\ dbLast' = [dbLast EXCEPT ![k] = now]
  /\ dbCalls' = [dbCalls EXCEPT ![k] = IF InBurst(k) THEN @ + 1 ELSE 1]
  /\ dbFired' = [dbFired EXCEPT ![k] = IF InBurst(k) THEN @ ELSE 0]
  /\ IF k \in debounceMap
       THEN /\ dbTimers' = {t \in dbTimers : t.key # k}
            /\ UNCHANGED debounceMap
       ELSE /\ dbTimers' = dbTimers \cup {[key |-> k, due |-> now + DEBOUNCE_DELAY]}
            /\ debounceMap' = debounceMap \cup {k}
  /\ UNCHANGED <<now, dbSaving, othersDb>>

\* the setTimeout callback up to its first await (saveAuditEvent): the audit
\* event is built and the save is issued.
debounceTimeout(k) ==
  /\ \E t \in dbTimers : t.key = k /\ t.due <= now
  /\ dbTimers' = {t \in dbTimers : t.key # k}
  /\ dbSaving' = dbSaving \cup {k}
  /\ dbFired' = [dbFired EXCEPT ![k] = @ + 1]
  /\ UNCHANGED <<now, debounceMap, dbLast, dbCalls, othersDb>>

\* the callback's finally block: the key leaves the map, whether or not the
\* save and the indexing succeeded.
debounceFinally(k) ==
  /\ k \in dbSaving
  /\ dbSaving' = dbSaving \ {k}
  /\ debounceMap' = debounceMap \ {k}
  /\ UNCHANGED <<now, dbTimers, dbLast, dbCalls, dbFired, othersDb>>

\* the clock advances; a runnable timer runs first
TickDebounce ==
  /\ now < MaxTime
  /\ \A t \in dbTimers : t.due > now
  /\ now' = now + 1
  /\ UNCHANGED <<dbVars, othersDb>>

NextDebounce ==
  \/ \E k \in DebounceKeys : createAuditEvent(k)
  \/ \E k \in DebounceKeys : debounceTimeout(k)
  \/ \E k \in DebounceKeys : debounceFinally(k)
  \/ TickDebounce

(***************************************************************************)
(* The platform (discord.js guild caches) and the snapshot store           *)
(***************************************************************************)
\* the entities of the guild that the snapshots know: a role, an emoji, a
\* sticker, a category and its two text channels
Entities == {"R1", "E1", "S1", "P1", "C1", "C2"}

KindOf(e) ==
  CASE e = "R1" -> "role"
    [] e = "E1" -> "emoji"
    [] e = "S1" -> "sticker"
    [] e = "G" -> "guild"
    [] OTHER -> "channel"

\* channel_data.type = 4
IsCategory(e) == e = "P1"

\* channel_data.parent_id ("" is NULL)
ParentOf(e) == IF e \in {"C1", "C2"} THEN "P1" ELSE ""

\* the rows of channel_data in the order getChannelsData returns them
ChannelRows == <<"P1", "C1", "C2">>

\* the members of the guild; member_data records M1 and M2 as holding R1
Members == {"M1", "M2"}

NoBackup == [id |-> "", has |-> {}, names |-> <<>>]

\* the id the platform gives to the n-th entity it creates
NewId(n) == "N" \o ToString(n)

\* an entity the moment the snapshot saw it
Original(e) == [id |-> e, name |-> e, kind |-> KindOf(e), parent |-> ParentOf(e)]

\* guild.<kind>.cache.get(id) / has(id)
IsLive(P, id) == \E x \in P.live : x.id = id

\* the platform state an operation works on, with the calls it has made
Platform == [live |-> live, nextId |-> nextId, memberRoles |-> memberRoles, calls |-> <<>>]

\* whether the platform accepts a create/edit/grant for the named entity or member
Accepts(name) == name \notin rejects

\* guild.<kind>.create(options): a new entity under a fresh id
CreateAs(P, name, kind, parent) ==
  [P EXCEPT !.live = @ \cup {[id |-> NewId(P.nextId), name |-> name, kind |-> kind,
                               parent |-> parent]},
            !.nextId = @ + 1,
            !.calls = Append(@, [call |-> "create", id |-> NewId(P.nextId), name |-> name,
                                 parent |-> parent])]

\* existing.edit(options) with the snapshot's values
Edit(P, id, name) ==
  [P EXCEPT !.live = {IF x.id = id THEN [x EXCEPT !.name = name] ELSE x : x \in @},
            !.calls = Append(@, [call |-> "edit", id |-> id, name |-> name, parent |-> ""])]

\* getBackup(backupId) over the table
BackupById(backupId) ==
  IF \E i \in DOMAIN backups : backups[i].id = backupId
    THEN backups[CHOOSE i \in DOMAIN backups : backups[i].id = backupId]
    ELSE NoBackup

\* getLatestBackup(guildId): first row by timestamp DESC, or null
getLatestBackup == IF backups = <<>> THEN NoBackup ELSE backups[1]

\* getBackupsByGuild(guildId, 10)
RECENT_LIMIT == 10

getBackupsByGuild ==
  SubSeq(backups, 1, IF Len(backups) < RECENT_LIMIT THEN Len(backups) ELSE RECENT_LIMIT)

\* get<Kind>Data(backupId, id): the row of the entity in that backup, if any
HasData(backupId, e) == e \in BackupById(backupId).has

\* the name the row records
DataName(backupId, e) == BackupById(backupId).names[e]

\* create from the row of entity e in backup backupId
Create(P, backupId, e, parent) == CreateAs(P, DataName(backupId, e), KindOf(e), parent)

(***************************************************************************)
(* BackupManager: restoreRole, restoreChannel, restoreEmoji, restoreSticker*)
(***************************************************************************)
\* fastAssignRoleToMembers: the members member_data lists for the role that
\* do not hold role.id get it; a rejected grant is logged
fastAssignRoleToMembers(P, roleId, backupId, oldRoleId) ==
  LET holders == IF HasData(backupId, oldRoleId) THEN Members ELSE {}
      todo == {m \in holders : <<m, roleId>> \notin P.memberRoles}
  IN [P EXCEPT !.memberRoles = @ \cup {<<m, roleId>> : m \in {x \in todo : x \notin rejects}}]

\* restoreRole once roleData was found in backup backupId (lines 962-1011)
restoreRoleFound(P, backupId, roleId) ==
  IF ~IsLive(P, roleId)
    THEN IF Accepts(roleId)
           THEN [ok |-> TRUE,
                 P |-> fastAssignRoleToMembers(Create(P, backupId, roleId, ""), NewId(P.nextId), backupId, roleId)]
           ELSE [ok |-> FALSE, P |-> P]
    ELSE IF Accepts(roleId)
           THEN [ok |-> TRUE,
                 P |-> fastAssignRoleToMembers(Edit(P, roleId, DataName(backupId, roleId)), roleId, backupId, roleId)]
           ELSE [ok |-> FALSE, P |-> P]

\* restoreRole: the role's data is looked up in backupId; when it is in none of
\* its tables the latest backup is tried instead (lines 951-956)
restoreRole(P, backupId, roleId) ==
  IF HasData(backupId, roleId) /\ KindOf(roleId) = "role"
    THEN restoreRoleFound(P, backupId, roleId)
    ELSE IF getLatestBackup # NoBackup /\ getLatestBackup.id # backupId
              /\ HasData(getLatestBackup.id, roleId) /\ KindOf(roleId) = "role"
           THEN restoreRoleFound(P, getLatestBackup.id, roleId)
           ELSE [ok |-> FALSE, P |-> P]

\* restoreEmoji / restoreSticker: data row, fetch of the image, create
restoreEmoji(P, backupId, emojiId) ==
  IF ~(HasData(backupId, emojiId) /\ KindOf(emojiId) = "emoji")
    THEN [ok |-> FALSE, P |-> P]
    ELSE IF Accepts(emojiId)
           THEN [ok |-> TRUE, P |-> Create(P, backupId, emojiId, "")]
           ELSE [ok |-> FALSE, P |-> P]

restoreSticker(P, backupId, stickerId) ==
  IF ~(HasData(backupId, stickerId) /\ KindOf(stickerId) = "sticker")
    THEN [ok |-> FALSE, P |-> P]
    ELSE IF Accepts(stickerId)
           THEN [ok |-> TRUE, P |-> Create(P, backupId, stickerId, "")]
           ELSE [ok |-> FALSE, P |-> P]

\* the loop over the snapshot children of a category, each create in its own
\* try/catch; a child whose id is live is skipped
RECURSIVE CreateChildren(_, _, _, _, _)
CreateChildren(P, backupId, rows, originalParentId, newParentId) ==
  IF rows = <<>> THEN P
  ELSE LET c == Head(rows)
           wanted == /\ HasData(backupId, c)
                     /\ ParentOf(c) = originalParentId
                     /\ ~IsCategory(c)
                     /\ ~IsLive(P, c)
                     /\ Accepts(c)
           P1 == IF wanted THEN Create(P, backupId, c, newParentId) ELSE P
       IN CreateChildren(P1, backupId, Tail(rows), originalParentId, newParentId)

\* a restore of the children that leaves them under the id of the deleted category
restoreChildrenUnderOldParent(P, backupId, originalParentId, newParentId) ==
  CreateChildren(P, backupId, ChannelRows, originalParentId, originalParentId)

restoreAllChildrenOfCategory(P, backupId, originalParentId, newParentId) ==
  CreateChildren(P, backupId, ChannelRows, originalParentId, newParentId)

\* restoreCategoryAndGetNewId: the id of the live or newly created category, "" for null
restoreCategoryAndGetNewId(P, backupId, categoryId) ==
  IF ~(HasData(backupId, categoryId) /\ IsCategory(categoryId))
    THEN [id |-> "", P |-> P]
    ELSE IF IsLive(P, categoryId)
           THEN [id |-> categoryId, P |-> P]
           ELSE IF Accepts(categoryId)
                  THEN [id |-> NewId(P.nextId), P |-> Create(P, backupId, categoryId, "")]
                  ELSE [id |-> "", P |-> P]

\* restoreChannel (lines 1156-1242)
restoreChannel(P, backupId, channelId) ==
  IF ~(HasData(backupId, channelId) /\ KindOf(channelId) = "channel")
    THEN [ok |-> FALSE, P |-> P]
    ELSE
      LET parentId == ParentOf(channelId)
          cat == IF parentId # "" /\ ~IsLive(P, parentId)
                   THEN restoreCategoryAndGetNewId(P, backupId, parentId)
                   ELSE [id |-> parentId, P |-> P]
          P1 == IF parentId # "" /\ ~IsLive(P, parentId) /\ cat.id # ""
                  THEN restoreAllChildrenOfCategory(cat.P, backupId, parentId, cat.id)
                  ELSE cat.P
          newParentId == cat.id
      IN IF IsLive(P1, channelId)
           THEN [ok |-> TRUE, P |-> P1]
           ELSE IF Accepts(channelId)
                  THEN [ok |-> TRUE, P |-> Create(P1, backupId, channelId, newParentId)]
                  ELSE [ok |-> FALSE, P |-> P1]

\* restoreCategoryAndChildren (lines 1244-1310): returns normally when the
\* category's data is missing; throws when the category's create is rejected
restoreCategoryAndChildren(P, backupId, categoryId) ==
  IF ~(HasData(backupId, categoryId) /\ IsCategory(categoryId))
    THEN [threw |-> FALSE, P |-> P]
    ELSE IF ~IsLive(P, categoryId) /\ ~Accepts(categoryId)
           THEN [threw |-> TRUE, P |-> P]
           ELSE LET P1 == IF IsLive(P, categoryId) THEN P ELSE Create(P, backupId, categoryId, "")
                    newCategoryId == IF IsLive(P, categoryId) THEN categoryId ELSE NewId(P.nextId)
                IN [threw |-> FALSE,
                    P |-> CreateChildren(P1, backupId, ChannelRows, categoryId, newCategoryId)]

(***************************************************************************)
(* GuardManager: self-action markers and the restore of deleted entities   *)
(***************************************************************************)
\* GuardManager.SELF_ACTION_TIMEOUT = 10000 ms, in seconds
SELF_ACTION_TIMEOUT == 10

\* markSelfAction(guildId, targetId): the key is added and a timer that deletes
\* it is armed; SA is the pair [set, timers]
SelfState == [set |-> selfActions, timers |-> selfTimers]

markSelfAction(SA, targetId) ==
  [set |-> SA.set \cup {targetId},
   timers |-> SA.timers \cup {[key |-> targetId, due |-> now + SELF_ACTION_TIMEOUT]}]

\* isSelfAction(guildId, targetId)
isSelfAction(targetId) == targetId \in selfActions

\* the for loop of performRestore over the older backups (lines 1251-1261);
\* restoreMethod is backupManager.restoreRole, the only method ever bound to it
RECURSIVE RestoreFromOlder(_, _, _, _)
RestoreFromOlder(P, rows, finalBackupId, targetId) ==
  IF rows = <<>> THEN [ok |-> FALSE, P |-> P, tried |-> <<>>]
  ELSE IF Head(rows).id = finalBackupId
         THEN RestoreFromOlder(P, Tail(rows), finalBackupId, targetId)
         ELSE LET r == restoreRole(P, Head(rows).id, targetId)
              IN IF r.ok
                   THEN [ok |-> TRUE, P |-> r.P, tried |-> <<Head(rows).id>>]
                   ELSE LET rest == RestoreFromOlder(r.P, Tail(rows), finalBackupId, targetId)
                        IN [rest EXCEPT !.tried = <<Head(rows).id>> \o @]

\* performRestore after markSelfAction: note is the sendRestoreNotification
\* made ("" when the function returns before any)
performRestore(P, backupId, targetId) ==
  LET finalBackupId == IF backupId # "" THEN backupId ELSE getLatestBackup.id
  IN IF finalBackupId = ""
       THEN [ok |-> FALSE, P |-> P, tried |-> <<>>, note |-> ""]
       ELSE LET first == restoreRole(P, finalBackupId, targetId)
                older == RestoreFromOlder(first.P, getBackupsByGuild, finalBackupId, targetId)
            IN IF first.ok
                 THEN [ok |-> TRUE, P |-> first.P, tried |-> <<finalBackupId>>, note |-> "success"]
                 ELSE [ok |-> older.ok, P |-> older.P, tried |-> <<finalBackupId>> \o older.tried,
                       note |-> IF older.ok THEN "success" ELSE "failure"]

\* restoreDeletedRole
restoreDeletedRole(P, backupId, targetId) == performRestore(P, backupId, targetId)

\* restoreDeletedEmoji / restoreDeletedSticker: one attempt, on the hinted or latest backup
restoreDeletedEmoji(P, backupId, emojiId) ==
  LET finalBackupId == IF backupId # "" THEN backupId ELSE getLatestBackup.id
      r == restoreEmoji(P, finalBackupId, emojiId)
  IN IF finalBackupId = ""
       THEN [ok |-> FALSE, P |-> P, tried |-> <<>>, note |-> ""]
       ELSE [ok |-> r.ok, P |-> r.P, tried |-> <<finalBackupId>>,
             note |-> IF r.ok THEN "success" ELSE "failure"]

restoreDeletedSticker(P, backupId, stickerId) ==
  LET finalBackupId == IF backupId # "" THEN backupId ELSE getLatestBackup.id
      r == restoreSticker(P, finalBackupId, stickerId)
  IN IF finalBackupId = ""
       THEN [ok |-> FALSE, P |-> P, tried |-> <<>>, note |-> ""]
       ELSE [ok |-> r.ok, P |-> r.P, tried |-> <<finalBackupId>>,
             note |-> IF r.ok THEN "success" ELSE "failure"]

\* the search of restoreDeletedChannel for a backup holding the channel's data
\* (lines 1385-1405): "" when none of the recent backups has it
RECURSIVE FirstWithData(_, _, _)
FirstWithData(rows, finalBackupId, channelId) ==
  IF rows = <<>> THEN ""
  ELSE IF Head(rows).id # finalBackupId /\ HasData(Head(rows).id, channelId)
         THEN Head(rows).id
         ELSE FirstWithData(Tail(rows), finalBackupId, channelId)

\* the loops that retry restoreCategoryAndChildren on the other backups after
\* it threw (lines 1425-1438 and 1453-1464)
RECURSIVE CategoryFromOthers(_, _, _, _)
CategoryFromOthers(P, rows, foundBackupId, categoryId) ==
  IF rows = <<>> THEN [threw |-> TRUE, P |-> P]
  ELSE IF Head(rows).id = foundBackupId
         THEN CategoryFromOthers(P, Tail(rows), foundBackupId, categoryId)
         ELSE LET r == restoreCategoryAndChildren(P, Head(rows).id, categoryId)
              IN IF ~r.threw THEN r
                 ELSE CategoryFromOthers(r.P, Tail(rows), foundBackupId, categoryId)

restoreCategoryWithRetry(P, foundBackupId, categoryId) ==
  LET r == restoreCategoryAndChildren(P, foundBackupId, categoryId)
  IN IF ~r.threw THEN r
     ELSE CategoryFromOthers(r.P, getBackupsByGuild, foundBackupId, categoryId)

\* restoreDeletedChannel after markSelfAction
restoreDeletedChannel(P, backupId, channelId) ==
  LET finalBackupId == IF backupId # "" THEN backupId ELSE getLatestBackup.id
      foundBackupId == IF HasData(finalBackupId, channelId) THEN finalBackupId
                       ELSE FirstWithData(getBackupsByGuild, finalBackupId, channelId)
      parentId == ParentOf(channelId)
  IN IF finalBackupId = ""
       THEN [ok |-> FALSE, P |-> P, tried |-> <<>>, note |-> ""]
     ELSE IF foundBackupId = ""
       THEN [ok |-> FALSE, P |-> P, tried |-> <<>>, note |-> "failure"]
     ELSE IF IsCategory(channelId)
       THEN LET r == restoreCategoryWithRetry(P, foundBackupId, channelId)
            IN [ok |-> ~r.threw, P |-> r.P, tried |-> <<foundBackupId>>,
                note |-> IF ~r.threw THEN "success" ELSE "failure"]
     ELSE IF parentId # "" /\ ~IsLive(P, parentId)
       THEN [ok |-> FALSE, P |-> restoreCategoryWithRetry(P, foundBackupId, parentId).P,
             tried |-> <<foundBackupId>>, note |-> "failure"]
       ELSE [ok |-> FALSE, P |-> P, tried |-> <<foundBackupId>>, note |-> "failure"]

(***************************************************************************)
(* Restore operations as steps                                             *)
(***************************************************************************)
NoOp == [op |-> "", backupId |-> "", target |-> "", ok |-> FALSE, note |-> "",
         tried |-> <<>>, calls |-> <<>>, before |-> {}, repeat |-> FALSE]

\* what the backups of the guild may hold
SnapshotChoices ==
  { Entities, {"P1", "C2"}, {} }

\* what the platform may reject
RejectChoices == { {}, {"P1", "E1", "M1"} }

BackupIds == {"B" \o ToString(i) : i \in 1..NumBackups}

InitRestore ==
  /\ \E has \in [1..NumBackups -> SnapshotChoices] :
       backups = [i \in 1..NumBackups |-> [id |-> "B" \o ToString(i), has |-> has[i], names |-> [e \in has[i] |-> e]]]
  /\ rejects \in RejectChoices
  /\ live = {Original(e) : e \in Entities}
  /\ nextId = 1
  /\ memberRoles = {<<m, "R1">> : m \in Members}
  /\ rsLast = NoOp

InitSelfActions ==
  /\ selfActions = {}
  /\ selfTimers = {}

\* the operation about to run is the one that has just returned with success
Repeats(op, backupId, id) ==
  rsLast.op = op /\ rsLast.backupId = backupId /\ rsLast.target = id /\ rsLast.ok

\* the state after a restore operation that returned r; before is the live
\* state a repeated operation started from
Restored(r, op, backupId, id) ==
  /\ live' = r.P.live
  /\ nextId' = r.P.nextId
  /\ memberRoles' = r.P.memberRoles
  /\ rsLast' = [op |-> op, backupId |-> backupId, target |-> id, ok |-> r.ok,
                note |-> r.note, tried |-> r.tried, calls |-> r.P.calls,
                before |-> IF Repeats(op, backupId, id) THEN live ELSE {},
                repeat |-> Repeats(op, backupId, id)]
  /\ UNCHANGED <<backups, rejects>>

\* POST /api/v1/backups/:backupId/restore/<kind>/:id calls the BackupManager
\* method of the route
apiRestore(backupId, id) ==
  /\ nextId <= MaxCreates
  /\ LET r == CASE KindOf(id) = "role" -> restoreRole(Platform, backupId, id)
                 [] KindOf(id) = "channel" -> restoreChannel(Platform, backupId, id)
                 [] KindOf(id) = "emoji" -> restoreEmoji(Platform, backupId, id)
                 [] KindOf(id) = "sticker" -> restoreSticker(Platform, backupId, id)
     IN Restored([ok |-> r.ok, P |-> r.P, note |-> "", tried |-> <<backupId>>],
                 "api", backupId, id)
  /\ UNCHANGED <<saVars, othersRs>>

\* restoreDeletedRole / Channel / Emoji / Sticker(guild, backupId, violation)
\* with violation.targetId = id; backupId "" is null
restoreDeleted(backupId, id) ==
  /\ nextId <= MaxCreates
  /\ Cardinality(selfActions \cup {id}) <= MaxMarks
  /\ LET SA == markSelfAction(SelfState, id)
     IN selfActions' = SA.set /\ selfTimers' = SA.timers
  /\ LET r == CASE KindOf(id) = "role" -> restoreDeletedRole(Platform, backupId, id)
                 [] KindOf(id) = "channel" -> restoreDeletedChannel(Platform, backupId, id)
                 [] KindOf(id) = "emoji" -> restoreDeletedEmoji(Platform, backupId, id)
                 [] KindOf(id) = "sticker" -> restoreDeletedSticker(Platform, backupId, id)
     IN Restored(r, "guard", backupId, id)
  /\ UNCHANGED othersRs

\* somebody deletes a live entity of the guild
deleteEntity(e) ==
  /\ Original(e) \in live
  /\ Cardinality({x \in Entities : Original(x) \notin live}) < MaxDeletes
  /\ live' = live \ {Original(e)}
  /\ memberRoles' = {g \in memberRoles : g[2] # e}
  /\ rsLast' = NoOp
  /\ UNCHANGED <<backups, rejects, nextId, saVars, othersRs>>

NextRestore ==
  \/ \E b \in BackupIds, e \in Entities : apiRestore(b, e)
  \/ \E e \in Entities : restoreDeleted("", e)
  \/ \E e \in Entities : restoreDeleted(getLatestBackup.id, e)
  \/ \E e \in Entities : deleteEntity(e)

\* the restore state of a specification that restores nothing
InitRestoreIdle ==
  /\ backups = <<>>
  /\ rejects = {}
  /\ live = {Original(e) : e \in Entities}
  /\ nextId = 1
  /\ memberRoles = {<<m, "R1">> : m \in Members}
  /\ rsLast = NoOp

(***************************************************************************)
(* performRestore over a longer history of backups, on a platform that may *)
(* reject the role                                                         *)
(***************************************************************************)
MaxSnapshots == 3

SnapshotIds == {"B" \o ToString(i) : i \in 1..MaxSnapshots}

InitPerform ==
  /\ \E has \in [1..MaxSnapshots -> {Entities, {}}] :
       backups = [i \in 1..MaxSnapshots |->
                    [id |-> "B" \o ToString(i), has |-> has[i], names |-> [e \in has[i] |-> e]]]
  /\ rejects \in {{}, {"R1"}}
  /\ live = {Original(e) : e \in Entities}
  /\ nextId = 1
  /\ memberRoles = {<<m, "R1">> : m \in Members}
  /\ rsLast = NoOp

NextPerform ==
  \/ \E b \in {""} \cup SnapshotIds, e \in Entities : restoreDeleted(b, e)
  \/ \E e \in Entities : deleteEntity(e)

\* the backup whose role data a restoreRole(backupId, roleId) call issues its
\* create or edit from (lines 929-956): backupId, else the latest backup
roleAttempts(backupId, roleId) ==
  IF HasData(backupId, roleId) /\ KindOf(roleId) = "role" THEN <<backupId>>
  ELSE IF getLatestBackup # NoBackup /\ getLatestBackup.id # backupId
            /\ HasData(getLatestBackup.id, roleId) /\ KindOf(roleId) = "role"
         THEN <<getLatestBackup.id>>
         ELSE <<>>

(***************************************************************************)
(* BackupManager.restoreFullGuild and the steps it awaits in turn          *)
(* (the guild's settings and its webhooks are not entities of this guild)  *)
(***************************************************************************)
\* restoreRoles (lines 720-770): each role in its own try/catch
restoreRoles(P, backupId) ==
  IF HasData(backupId, "R1") /\ Accepts("R1")
    THEN IF IsLive(P, "R1") THEN Edit(P, "R1", DataName(backupId, "R1"))
                            ELSE Create(P, backupId, "R1", "")
    ELSE P

\* restoreChannels (lines 772-788), the categories: restoreCategoryAndChildren
\* has no try block around the category's create
RECURSIVE restoreCategories(_, _, _)
restoreCategories(P, backupId, rows) ==
  IF rows = <<>> THEN [threw |-> FALSE, P |-> P]
  ELSE IF HasData(backupId, Head(rows)) /\ IsCategory(Head(rows))
         THEN LET r == restoreCategoryAndChildren(P, backupId, Head(rows))
              IN IF r.threw THEN r ELSE restoreCategories(r.P, backupId, Tail(rows))
         ELSE restoreCategories(P, backupId, Tail(rows))

\* restoreChannels, the other channels: restoreChannelUltraFast (lines
\* 1314-1400) takes the steps of restoreChannel and its result is dropped
RECURSIVE restoreOtherChannels(_, _, _)
restoreOtherChannels(P, backupId, rows) ==
  IF rows = <<>> THEN P
  ELSE IF HasData(backupId, Head(rows)) /\ ~IsCategory(Head(rows))
         THEN restoreOtherChannels(restoreChannel(P, backupId, Head(rows)).P, backupId, Tail(rows))
         ELSE restoreOtherChannels(P, backupId, Tail(rows))

restoreChannels(P, backupId) ==
  LET c == restoreCategories(P, backupId, ChannelRows)
  IN IF c.threw THEN c ELSE [threw |-> FALSE, P |-> restoreOtherChannels(c.P, backupId, ChannelRows)]

\* restoreEmojis / restoreStickers (lines 815-868): an entity that is not live
\* is created, each in its own try/catch
restoreEmojis(P, backupId) ==
  IF HasData(backupId, "E1") /\ ~IsLive(P, "E1") /\ Accepts("E1")
    THEN Create(P, backupId, "E1", "") ELSE P

restoreStickers(P, backupId) ==
  IF HasData(backupId, "S1") /\ ~IsLive(P, "S1") /\ Accepts("S1")
    THEN Create(P, backupId, "S1", "") ELSE P

\* restoreMemberRoles (lines 895-921): the roles a member held that are live
\* under their id are granted, each member in its own try/catch
restoreMemberRoles(P, backupId) ==
  IF HasData(backupId, "R1") /\ IsLive(P, "R1")
    THEN [P EXCEPT !.memberRoles = @ \cup {<<m, "R1">> : m \in {x \in Members : Accepts(x)}}]
    ELSE P

\* restoreFullGuild (lines 670-688): false only when a step throws;
\* storeFails is a read of the backup tables that throws in the first step
restoreFullGuild(P, backupId, storeFails) ==
  IF storeFails THEN [ok |-> FALSE, P |-> P]
  ELSE LET c == restoreChannels(restoreRoles(P, backupId), backupId)
       IN IF c.threw THEN [ok |-> FALSE, P |-> c.P]
          ELSE [ok |-> TRUE,
                P |-> restoreMemberRoles(restoreStickers(restoreEmojis(c.P, backupId), backupId),
                                         backupId)]

\* POST /api/v1/backups/:backupId/restore/full (WebServer.ts lines 173-200):
\* the response's success is the method's result
apiRestoreFull(backupId, storeFails) ==
  /\ nextId <= MaxCreates
  /\ LET r == restoreFullGuild(Platform, backupId, storeFails)
     IN Restored([ok |-> r.ok, P |-> r.P, note |-> "", tried |-> <<backupId>>],
                 "full", backupId, "")
  /\ UNCHANGED <<saVars, othersRs>>

NextFullRestore ==
  \/ \E b \in BackupIds, storeFails \in BOOLEAN : apiRestoreFull(b, storeFails)
  \/ \E e \in Entities : deleteEntity(e)

(***************************************************************************)
(* GuardManager: the event handlers                                        *)
(*                                                                         *)
(* A handler invocation is a record of handlers; its pc is the await it is *)
(* suspended at, and the code between two awaits runs as one step.  The    *)
(* clock does not advance in these behaviours: they are the ones that end  *)
(* before the first timer is due, so every marker and lock once set stays. *)
(***************************************************************************)
\* client.user.id
BOT == "BOT"

\* the members that act on the guild; U2 holds the role RW
Users == {"U1", "U2"}

HeldRoles(u) == IF u = "U2" THEN {"RW"} ELSE {}

\* the names a member may give to a role or to the guild
AltNames == {"X", "Y"}

EventTypes == {"roleCreate", "roleUpdate", "roleDelete", "channelCreate", "channelDelete", "guildUpdate"}

\* guild.fetchAuditLogs({type, limit: 1}) finds no entry, or getAuditLog caught an error
NoEntry == [executor |-> "", targetId |-> ""]

\* the 5000 ms of recentRoleChanges and of the release of the restoration lock, in seconds
RECENT_CHANGE_WINDOW == 5

\* the lifetimes of the recent_restore (30000 ms) and recent_deletion (15000 ms) keys
RECENT_RESTORE_TTL == 30

RECENT_DELETION_TTL == 15

\* `${guild.id}:${id}:recent_restore` and the like
KeyOf(id, suffix) == id \o ":" \o suffix

\* the action name the handler of an event passes to checkWhitelist
ActionName(type) ==
  CASE type = "roleCreate" -> "role_create"
    [] type = "roleUpdate" -> "role_update"
    [] type = "roleDelete" -> "role_delete"
    [] type = "channelCreate" -> "channel_create"
    [] type = "channelDelete" -> "channel_delete"
    [] type = "guildUpdate" -> "guild_update"

\* the rows of the whitelist table that are active and unexpired
WhitelistChoices ==
  { {}, {[type |-> "user", targetId |-> "U1"]}, {[type |-> "action", targetId |-> "role_delete"]} }

\* databaseManager.isWhitelisted(guildId, type, targetId)
dbIsWhitelisted(type, targetId) == [type |-> type, targetId |-> targetId] \in wlStore

\* checkWhitelist(guildId, executorId, action): the user, then the action, then
\* the roles the member holds; the table does not change in these behaviours,
\* so a result cached by isUserWhitelisted, isActionWhitelisted or
\* isRoleWhitelisted is the table's
checkWhitelist(executorId, action) ==
  \/ dbIsWhitelisted("user", executorId)
  \/ dbIsWhitelisted("action", action)
  \/ \E roleId \in HeldRoles(executorId) : dbIsWhitelisted("role", roleId)

\* isWhitelisted(userId, guildId): the whitelist of the guild's config only
isWhitelisted(userId) ==
  /\ configs.loaded
  /\ \/ userId \in configs.whitelistUsers
     \/ \E roleId \in configs.whitelistRoles : roleId \in HeldRoles(userId)

\* isBotAction(executorId)
isBotAction(executorId) == executorId = BOT

\* the state the handlers and the platform work on
World ==
  [live |-> live, nextId |-> nextId, memberRoles |-> memberRoles, backups |-> backups,
   selfActions |-> selfActions, selfTimers |-> selfTimers, gEvents |-> gEvents, gSeq |-> gSeq,
   gUserOps |-> gUserOps, handlers |-> handlers, audit |-> audit,
   restorationInProgress |-> restorationInProgress, lockTimers |-> lockTimers,
   recentRoleChanges |-> recentRoleChanges, mutations |-> mutations]

Apply(W) ==
  /\ live' = W.live
  /\ nextId' = W.nextId
  /\ memberRoles' = W.memberRoles
  /\ backups' = W.backups
  /\ selfActions' = W.selfActions
  /\ selfTimers' = W.selfTimers
  /\ gEvents' = W.gEvents
  /\ gSeq' = W.gSeq
  /\ gUserOps' = W.gUserOps
  /\ handlers' = W.handlers
  /\ audit' = W.audit
  /\ restorationInProgress' = W.restorationInProgress
  /\ lockTimers' = W.lockTimers
  /\ recentRoleChanges' = W.recentRoleChanges
  /\ mutations' = W.mutations
  /\ UNCHANGED <<rejects, rsLast, wlStore, othersGu>>

PlatformOf(W) ==
  [live |-> W.live, nextId |-> W.nextId, memberRoles |-> W.memberRoles, calls |-> <<>>]

WithPlatform(W, P) ==
  [W EXCEPT !.live = P.live, !.nextId = P.nextId, !.memberRoles = P.memberRoles]

\* the platform records a change in the audit log and emits the gateway event;
\* echo is whether the change was made by the engine, dup whether the event
\* has been delivered once and is kept for a second delivery
Announce(W, type, executor, target, name, members, changed) ==
  [W EXCEPT !.audit[type] = [executor |-> executor, targetId |-> target],
            !.gEvents = @ \cup {[seq |-> W.gSeq, type |-> type, target |-> target, name |-> name,
                                 members |-> members, changed |-> changed,
                                 echo |-> executor = BOT, dup |-> FALSE]},
            !.gSeq = @ + 1]

\* the marker an echo of the event would be recognised by
EchoKey(type, target) == IF type = "guildUpdate" THEN "guild_settings" ELSE target

\* the handler invocation started for event e; marked is whether the marker
\* of its key was live at delivery, lookups the getAuditLog calls it has made
Handler(e, pc, exit) ==
  [event |-> e.seq, type |-> e.type, target |-> e.target, name |-> e.name,
   members |-> e.members, changed |-> e.changed, echo |-> e.echo,
   marked |-> EchoKey(e.type, e.target) \in selfActions,
   pc |-> pc, exit |-> exit, executor |-> "", auditTarget |-> "", marks |-> {},
   lookups |-> 0, violation |-> <<>>]

Merge(h, u) == [f \in DOMAIN h |-> IF f \in DOMAIN u THEN u[f] ELSE h[f]]

SetH(W, i, u) == [W EXCEPT !.handlers[i] = Merge(@, u)]

Finish(W, i, exit) == SetH(W, i, [pc |-> "done", exit |-> exit])

\* markSelfAction(guild.id, targetId) called by handler i
Mark(W, i, targetId) ==
  LET SA == markSelfAction([set |-> W.selfActions, timers |-> W.selfTimers], targetId)
  IN [W EXCEPT !.selfActions = SA.set, !.selfTimers = SA.timers,
               !.handlers[i].marks = @ \cup {targetId}]

\* this.selfActions.add(key) with a setTimeout that deletes it
AddKey(W, key, ttl) ==
  [W EXCEPT !.selfActions = @ \cup {key},
            !.selfTimers = @ \cup {[key |-> key, due |-> now + ttl]}]

\* handler i issues a create, edit or delete call; marked is whether the
\* handler had marked the entity before (for a create, the id it recreates),
\* seen the number the next gateway event will carry when the call is made
Mutation(W, i, call, id) ==
  LET h == W.handlers[i]
      key == IF h.type = "guildUpdate" THEN "guild_settings"
             ELSE IF call = "create" THEN h.target ELSE id
  IN [W EXCEPT !.mutations = @ \cup {[call |-> call, id |-> id, by |-> i, event |-> h.event,
                                      marked |-> key \in h.marks, seen |-> W.gSeq]}]

\* the finally block of handleRoleUpdate and handleChannelDelete
ReleaseLater(W, target) ==
  [W EXCEPT !.lockTimers = @ \cup {[key |-> target, due |-> now + RECENT_CHANGE_WINDOW]}]

RecentChange(W, key) ==
  \E c \in W.recentRoleChanges : c.key = key /\ now - c.timestamp < RECENT_CHANGE_WINDOW

SetRecentChange(W, key) ==
  [W EXCEPT !.recentRoleChanges = {c \in @ : c.key # key} \cup {[key |-> key, timestamp |-> now]}]

\* fetchAuditLogs for the handler's event type
AuditLogFor(h, fails) == IF fails THEN NoEntry ELSE audit[h.type]

InitGuardIdle ==
  /\ gEvents = {}
  /\ gSeq = 1
  /\ gUserOps = 0
  /\ handlers = <<>>
  /\ audit = [t \in EventTypes |-> NoEntry]
  /\ restorationInProgress = {}
  /\ lockTimers = {}
  /\ recentRoleChanges = {}
  /\ wlStore = {}
  /\ mutations = {}

InitGuard ==
  /\ gEvents = {}
  /\ gSeq = 1
  /\ gUserOps = 0
  /\ handlers = <<>>
  /\ audit = [t \in EventTypes |-> NoEntry]
  /\ restorationInProgress = {}
  /\ lockTimers = {}
  /\ recentRoleChanges = {}
  /\ wlStore \in WhitelistChoices
  /\ mutations = {}

\* the guild the handlers guard: a role, a category with a channel, and the
\* guild's settings under the id G; the one backup holds them all
GuardEntities == {"R1", "P1", "C1", "G"}

InitGuardPlatform ==
  /\ backups = <<[id |-> "B1", has |-> GuardEntities, names |-> [e \in GuardEntities |-> e]]>>
  /\ rejects = {}
  /\ live = {Original(e) : e \in GuardEntities}
  /\ nextId = 1
  /\ memberRoles = {<<m, "R1">> : m \in Members}
  /\ rsLast = NoOp

LiveOf(W, id) == CHOOSE x \in W.live : x.id = id

(***************************************************************************)
(* What the members of the guild do                                        *)
(***************************************************************************)
userCreateRole(u) ==
  /\ gUserOps < MaxUserOps
  /\ nextId <= MaxCreates
  /\ LET W1 == [World EXCEPT !.gUserOps = @ + 1, !.nextId = @ + 1,
                  !.live = @ \cup {[id |-> NewId(nextId), name |-> "X", kind |-> "role", parent |-> ""]}]
     IN Apply(Announce(W1, "roleCreate", u, NewId(nextId), "X", {}, FALSE))

userUpdate(u, id, name) ==
  /\ gUserOps < MaxUserOps
  /\ IsLive(World, id)
  /\ LiveOf(World, id).kind \in {"role", "guild"}
  /\ LiveOf(World, id).name # name
  /\ LET W1 == [World EXCEPT !.gUserOps = @ + 1, !.live = Edit(Platform, id, name).live]
     IN Apply(Announce(W1, IF LiveOf(World, id).kind = "role" THEN "roleUpdate" ELSE "guildUpdate",
                       u, id, name, {}, TRUE))

userDelete(u, id) ==
  /\ gUserOps < MaxUserOps
  /\ IsLive(World, id)
  /\ LiveOf(World, id).kind \in {"role", "channel"}
  /\ LET W1 == [World EXCEPT !.gUserOps = @ + 1, !.live = @ \ {LiveOf(World, id)},
                  !.memberRoles = {g \in @ : g[2] # id}]
     IN Apply(Announce(W1, IF LiveOf(World, id).kind = "role" THEN "roleDelete" ELSE "channelDelete",
                       u, id, LiveOf(World, id).name,
                       {m \in Members : <<m, id>> \in memberRoles}, FALSE))

(***************************************************************************)
(* Delivery of a gateway event: the handler runs to its first await        *)
(***************************************************************************)
\* the events that were or are to be delivered a second time
Redelivered ==
  Cardinality({x \in gEvents : x.dup})
    + Cardinality({i \in DOMAIN handlers :
                     \E j \in DOMAIN handlers : j < i /\ handlers[j].event = handlers[i].event})

\* the pending event with number seq
EventOf(seq) == CHOOSE e \in gEvents : e.seq = seq

CanDeliver(seq, keep, types) ==
  /\ \E e \in gEvents : e.seq = seq
  /\ EventOf(seq).type \in types
  /\ Len(handlers) < MaxHandlers
  /\ keep => Redelivered < MaxRedeliveries

\* the gateway may deliver an event a second time (keep)
Deliver(W, e, keep, gate) ==
  [W EXCEPT !.gEvents = IF keep THEN (@ \ {e}) \cup {[e EXCEPT !.dup = TRUE]} ELSE @ \ {e},
            !.handlers = Append(@, Handler(e, IF gate = "" THEN "audit" ELSE "done", gate))]

\* handleGenericEvent, lines 291-297 (role_create and channel_create)
handleGenericEvent(seq, keep) ==
  /\ CanDeliver(seq, keep, {"roleCreate", "channelCreate"})
  /\ LET e == EventOf(seq)
     IN Apply(Deliver(World, e, keep,
                   IF ~(configs.loaded /\ configs.enabled) THEN "config"
                   ELSE IF isSelfAction(e.target) THEN "self" ELSE ""))

\* handleRoleUpdate, lines 339-348
handleRoleUpdate(seq, keep) ==
  /\ CanDeliver(seq, keep, {"roleUpdate"})
  /\ LET e == EventOf(seq)
     IN Apply(Deliver(World, e, keep,
                   IF ~(configs.loaded /\ configs.enabled /\ "roles" \in configs.protection)
                     THEN "config"
                   ELSE IF isSelfAction(e.target) THEN "self"
                   ELSE IF e.target \in restorationInProgress THEN "lock"
                   ELSE IF KeyOf(e.target, "recent_restore") \in selfActions THEN "recent"
                   ELSE ""))

\* handleRoleDelete, lines 415-421
handleRoleDelete(seq, keep) ==
  /\ CanDeliver(seq, keep, {"roleDelete"})
  /\ LET e == EventOf(seq)
     IN Apply(Deliver(World, e, keep, IF isSelfAction(e.target) THEN "self" ELSE ""))

\* handleChannelDelete, lines 570-577: the lock is taken before the first await
handleChannelDelete(seq, keep) ==
  /\ CanDeliver(seq, keep, {"channelDelete"})
  /\ LET e == EventOf(seq)
         gate == IF isSelfAction(e.target) THEN "self"
                 ELSE IF e.target \in restorationInProgress THEN "lock" ELSE ""
         W1 == Deliver(World, e, keep, gate)
     IN Apply(IF gate = "" THEN [W1 EXCEPT !.restorationInProgress = @ \cup {e.target}] ELSE W1)

\* handleGuildUpdate, lines 775-776
handleGuildUpdate(seq, keep) ==
  /\ CanDeliver(seq, keep, {"guildUpdate"})
  /\ LET e == EventOf(seq)
     IN Apply(Deliver(World, e, keep,
                   IF ~(configs.loaded /\ configs.enabled /\ "guild" \in configs.protection)
                     THEN "config" ELSE ""))

(***************************************************************************)
(* The handlers after the audit lookup                                     *)
(***************************************************************************)
AtPc(i, types, pc) ==
  /\ i \in DOMAIN handlers
  /\ handlers[i].type \in types
  /\ handlers[i].pc = pc

\* gates that let a handler go on without an audit entry
AuditGateWithoutEntry(al) ==
  IF isBotAction(al.executor) THEN "bot"
  ELSE IF isWhitelisted(al.executor) THEN "whitelist"
  ELSE ""

\* the gates every handler but handleRoleDelete applies to the audit entry
AuditGate(al) ==
  IF al = NoEntry THEN "noaudit"
  ELSE IF isBotAction(al.executor) THEN "bot"
  ELSE IF isWhitelisted(al.executor) THEN "whitelist"
  ELSE ""

\* the entity.delete() of the create handlers: a call on an entity that is
\* gone is rejected and the catch of handleGenericEvent ends the handler
DeleteEntity(W, i) ==
  LET h == W.handlers[i]
      W1 == Mutation(W, i, "delete", h.target)
  IN IF ~IsLive(W, h.target)
       THEN Finish(W1, i, "error")
       ELSE LET x == LiveOf(W, h.target)
                W2 == [W1 EXCEPT !.live = @ \ {x}, !.memberRoles = {g \in @ : g[2] # h.target}]
            IN SetH(Announce(W2, IF h.type = "roleCreate" THEN "roleDelete" ELSE "channelDelete",
                             BOT, h.target, x.name,
                             {m \in Members : <<m, h.target>> \in W.memberRoles}, FALSE),
                    i, [pc |-> "violate"])

\* handleGenericEvent, lines 299-313, up to the await of entity.delete()
handleGenericEventAudit(i, fails) ==
  /\ AtPc(i, {"roleCreate", "channelCreate"}, "audit")
  /\ LET al == AuditLogFor(handlers[i], fails)
         W1 == SetH(World, i, [executor |-> al.executor, auditTarget |-> al.targetId,
                               lookups |-> handlers[i].lookups + 1])
     IN Apply(IF AuditGate(al) # "" THEN Finish(W1, i, AuditGate(al)) ELSE DeleteEntity(W1, i))

\* handleRoleUpdate, lines 350-358, up to the await of checkWhitelist
handleRoleUpdateAudit(i, fails) ==
  /\ AtPc(i, {"roleUpdate"}, "audit")
  /\ LET al == AuditLogFor(handlers[i], fails)
         W1 == SetH(World, i, [executor |-> al.executor, auditTarget |-> al.targetId,
                               lookups |-> handlers[i].lookups + 1])
     IN Apply(IF AuditGate(al) # "" THEN Finish(W1, i, AuditGate(al))
              ELSE SetH(W1, i, [pc |-> "whitelist"]))

\* handleRoleUpdate, lines 359-391, and restoreRoleFromBackup up to its first await
handleRoleUpdateWhitelist(i) ==
  /\ AtPc(i, {"roleUpdate"}, "whitelist")
  /\ LET h == handlers[i]
         changeKey == <<h.target, h.executor>>
         W1 == SetRecentChange(World, changeKey)
         W2 == [W1 EXCEPT !.restorationInProgress = @ \cup {h.target}]
         W3 == AddKey(W2, KeyOf(h.target, "recent_restore"), RECENT_RESTORE_TTL)
         W4 == Mark(W3, i, h.target)
     IN Apply(IF checkWhitelist(h.executor, "role_update") THEN Finish(World, i, "whitelist")
              ELSE IF ~h.changed THEN Finish(World, i, "nochange")
              ELSE IF h.auditTarget # "" /\ h.auditTarget # h.target
                     THEN Finish(World, i, "othertarget")
              ELSE IF RecentChange(World, changeKey) THEN Finish(World, i, "recentchange")
              ELSE SetH(W4, i, [pc |-> "restore"]))

\* restoreRoleFromBackup, lines 1293-1347: the engine is taken to hold
\* ManageRoles and to rank above the role
handleRoleUpdateRestore(i) ==
  /\ AtPc(i, {"roleUpdate"}, "restore")
  /\ LET h == handlers[i]
         latestBackup == getLatestBackup
         found == /\ latestBackup # NoBackup
                  /\ HasData(latestBackup.id, h.target)
                  /\ IsLive(World, h.target)
         needsUpdate == found /\ LiveOf(World, h.target).name # DataName(latestBackup.id, h.target)
         W1 == Mutation(World, i, "edit", h.target)
         W2 == [W1 EXCEPT !.live = Edit(PlatformOf(W1), h.target,
                                         DataName(latestBackup.id, h.target)).live]
         W3 == Announce(W2, "roleUpdate", BOT, h.target,
                        DataName(latestBackup.id, h.target), {}, TRUE)
     IN Apply(SetH(IF needsUpdate THEN W3 ELSE World, i, [pc |-> "violate"]))

\* handleRoleDelete, lines 438-470: markSelfAction of the deleted id, the
\* recent_deletion key and the roles.create call
RecreateRole(W, i) ==
  LET h == W.handlers[i]
      W1 == AddKey(Mark(W, i, h.target), KeyOf(h.target, "recent_deletion"), RECENT_DELETION_TTL)
      W2 == Mutation(W1, i, "create", NewId(W1.nextId))
      P == CreateAs(PlatformOf(W2), h.name, "role", "")
      W3 == Announce(WithPlatform(W2, P), "roleCreate", BOT, NewId(W.nextId), h.name, {}, FALSE)
  IN IF Accepts(h.target)
       THEN SetH(W3, i, [pc |-> "restore", auditTarget |-> NewId(W.nextId)])
       ELSE SetH(W2, i, [pc |-> "violate"])

\* handleRoleDelete, lines 423-429
handleRoleDeleteAudit(i, fails) ==
  /\ AtPc(i, {"roleDelete"}, "audit")
  /\ nextId <= MaxCreates
  /\ LET al == AuditLogFor(handlers[i], fails)
         W1 == SetH(World, i, [executor |-> al.executor, lookups |-> handlers[i].lookups + 1])
     IN Apply(IF al.executor # "" THEN SetH(W1, i, [pc |-> "whitelist"]) ELSE RecreateRole(W1, i))

\* handleRoleDelete after checkWhitelist
handleRoleDeleteWhitelist(i) ==
  /\ AtPc(i, {"roleDelete"}, "whitelist")
  /\ nextId <= MaxCreates
  /\ Apply(IF checkWhitelist(handlers[i].executor, "role_delete")
             THEN Finish(World, i, "whitelist")
             ELSE RecreateRole(World, i))

\* createBackup(guildId, true): a new latest backup of the live guild
createBackup(W) ==
  [W EXCEPT !.backups = <<[id |-> "B" \o ToString(Len(W.backups) + 1),
                           has |-> {x.id : x \in W.live},
                           names |-> [id \in {x.id : x \in W.live} |->
                                        (CHOOSE x \in W.live : x.id = id).name]]>> \o @]

\* a handleRoleDelete that takes the backup without distributing the role
handleRoleDeleteNoDistribute(i) ==
  /\ AtPc(i, {"roleDelete"}, "restore")
  /\ Apply(SetH(createBackup(World), i, [pc |-> "violate"]))

\* handleRoleDelete, lines 476-488: distributeRoleToMembersFromData to the
\* members that held the role, then createBackup
handleRoleDeleteDistribute(i) ==
  /\ AtPc(i, {"roleDelete"}, "restore")
  /\ LET h == handlers[i]
         W1 == [World EXCEPT !.memberRoles =
                  @ \cup {<<m, h.auditTarget>> : m \in {x \in h.members : Accepts(x)}}]
     IN Apply(SetH(createBackup(W1), i, [pc |-> "violate"]))

\* handleChannelDelete, lines 580-593, and restoreDeletedChannel up to its first await
handleChannelDeleteAudit(i, fails) ==
  /\ AtPc(i, {"channelDelete"}, "audit")
  /\ LET h == handlers[i]
         al == AuditLogFor(h, fails)
         changeKey == <<h.target, "delete">>
         gate == IF AuditGate(al) # "" THEN AuditGate(al)
                 ELSE IF al.targetId # "" /\ al.targetId # h.target THEN "othertarget"
                 ELSE IF RecentChange(World, changeKey) THEN "recentchange"
                 ELSE ""
         W1 == SetH(World, i, [executor |-> al.executor, auditTarget |-> al.targetId,
                               lookups |-> handlers[i].lookups + 1])
         dropped == ReleaseLater([W1 EXCEPT !.restorationInProgress = @ \ {h.target}], h.target)
     IN Apply(IF gate # "" THEN Finish(dropped, i, gate)
              ELSE SetH(Mark(SetRecentChange(W1, changeKey), i, h.target), i, [pc |-> "restore"]))

RECURSIVE AnnounceCreates(_, _, _)
AnnounceCreates(W, i, calls) ==
  IF calls = <<>> THEN W
  ELSE LET c == Head(calls)
       IN AnnounceCreates(Announce(Mutation(W, i, "create", c.id), "channelCreate", BOT,
                                   c.id, c.name, {}, FALSE),
                          i, Tail(calls))

\* restoreDeletedChannel(guild, null, {targetId}), lines 1366-1476
handleChannelDeleteRestore(i) ==
  /\ AtPc(i, {"channelDelete"}, "restore")
  /\ nextId <= MaxCreates
  /\ LET h == handlers[i]
         r == restoreDeletedChannel(PlatformOf(World), "", h.target)
     IN Apply(SetH(AnnounceCreates(WithPlatform(World, r.P), i, r.P.calls), i, [pc |-> "violate"]))

\* handleGuildUpdate, lines 778-789, and restoreGuildSettings up to its first await
handleGuildUpdateAudit(i, fails) ==
  /\ AtPc(i, {"guildUpdate"}, "audit")
  /\ LET al == AuditLogFor(handlers[i], fails)
         W1 == SetH(World, i, [executor |-> al.executor, auditTarget |-> al.targetId,
                               lookups |-> handlers[i].lookups + 1])
     IN Apply(IF AuditGate(al) # "" THEN Finish(W1, i, AuditGate(al))
              ELSE SetH(Mark(W1, i, "guild_settings"), i, [pc |-> "restore"]))

\* restoreGuildSettings, lines 1665-1685
handleGuildUpdateRestore(i) ==
  /\ AtPc(i, {"guildUpdate"}, "restore")
  /\ LET h == handlers[i]
         latestBackup == getLatestBackup
         found == latestBackup # NoBackup /\ HasData(latestBackup.id, h.target)
         W1 == Mutation(World, i, "edit", h.target)
         W2 == [W1 EXCEPT !.live = Edit(PlatformOf(W1), h.target,
                                         DataName(latestBackup.id, h.target)).live]
         W3 == Announce(W2, "guildUpdate", BOT, h.target,
                        DataName(latestBackup.id, h.target), {}, TRUE)
     IN Apply(SetH(IF found THEN W3 ELSE World, i, [pc |-> "violate"]))

\* the handleViolation call that ends a handler: userId, violationType, severity
ViolationOf(h) ==
  CASE h.type = "roleCreate" -> <<"unknown", "role_create_blocked", "medium">>
    [] h.type = "channelCreate" -> <<"unknown", "channel_create_blocked", "medium">>
    [] h.type = "roleUpdate" -> <<h.executor, "role_update_blocked", "medium">>
    [] h.type = "roleDelete" ->
         <<IF h.executor # "" THEN h.executor ELSE "unknown", "role_delete_blocked", "high">>
    [] h.type = "channelDelete" ->
         <<IF h.executor # "" THEN h.executor ELSE "unknown", "channel_delete_blocked", "high">>
    [] h.type = "guildUpdate" ->
         <<IF h.executor # "" THEN h.executor ELSE "unknown", "guild_update_blocked", "high">>

\* the await of handleViolation and the return of the handler; handleRoleUpdate
\* and handleChannelDelete arm the release of the restoration lock;
\* handleViolation returns at line 1051 when the guild has no config
raiseViolation(i) ==
  /\ AtPc(i, EventTypes, "violate")
  /\ LET h == handlers[i]
         W1 == SetH(World, i, [pc |-> "done", exit |-> "acted",
                               violation |-> IF configs.loaded THEN ViolationOf(h) ELSE <<>>])
     IN Apply(IF h.type \in {"roleUpdate", "channelDelete"} THEN ReleaseLater(W1, h.target) ELSE W1)

NextGuard ==
  \/ \E u \in Users : userCreateRole(u)
  \/ \E u \in Users, id \in {"R1", "G"}, name \in AltNames : userUpdate(u, id, name)
  \/ \E u \in Users, id \in {"R1", "P1"} : userDelete(u, id)
  \/ \E seq \in 1..MaxEvents, keep \in BOOLEAN : handleGenericEvent(seq, keep)
  \/ \E seq \in 1..MaxEvents, keep \in BOOLEAN : handleRoleUpdate(seq, keep)
  \/ \E seq \in 1..MaxEvents, keep \in BOOLEAN : handleRoleDelete(seq, keep)
  \/ \E seq \in 1..MaxEvents, keep \in BOOLEAN : handleChannelDelete(seq, keep)
  \/ \E seq \in 1..MaxEvents, keep \in BOOLEAN : handleGuildUpdate(seq, keep)
  \/ \E i \in 1..MaxHandlers, fails \in BOOLEAN : handleGenericEventAudit(i, fails)
  \/ \E i \in 1..MaxHandlers, fails \in BOOLEAN : handleRoleUpdateAudit(i, fails)
  \/ \E i \in 1..MaxHandlers, fails \in BOOLEAN : handleRoleDeleteAudit(i, fails)
  \/ \E i \in 1..MaxHandlers, fails \in BOOLEAN : handleChannelDeleteAudit(i, fails)
  \/ \E i \in 1..MaxHandlers, fails \in BOOLEAN : handleGuildUpdateAudit(i, fails)
  \/ \E i \in 1..MaxHandlers : handleRoleUpdateWhitelist(i)
  \/ \E i \in 1..MaxHandlers : handleRoleUpdateRestore(i)
  \/ \E i \in 1..MaxHandlers : handleRoleDeleteWhitelist(i)
  \/ \E i \in 1..MaxHandlers : handleRoleDeleteDistribute(i)
  \/ \E i \in 1..MaxHandlers : handleChannelDeleteRestore(i)
  \/ \E i \in 1..MaxHandlers : handleGuildUpdateRestore(i)
  \/ \E i \in 1..MaxHandlers : raiseViolation(i)

(***************************************************************************)
(* Bulk role sync: BackupManager.fastAssignRoleToMembers and               *)
(* GuardManager.distributeRoleToMembersFromData                            *)
(***************************************************************************)
\* the members of the guild, in the iteration order of guild.members.cache
SyncMembers == <<"M1", "M2", "M3", "M4", "M5", "M6">>
SyncMemberSet == {SyncMembers[j] : j \in 1..Len(SyncMembers)}
\* the role fastAssignRoleToMembers grants, and the role handleRoleDelete has
\* just created when it calls distributeRoleToMembersFromData
SyncRoleId == "R1"
DistRoleId == "N1"

\* databaseManager.getMembersWithRole(backupId, roleId): the member rows of the snapshot
ListedChoices == { SyncMemberSet, {"M1", "M2", "M3"}, {"M2"} }
HolderChoices == { {}, {"M2"}, {"M1", "M3", "M5"} }
SyncRejectChoices == { {}, {"M1", "M4"} }

NoSync == [pc |-> "idle", listed |-> {}, present |-> {}, held |-> {}, array |-> <<>>, i |-> 0,
           results |-> [m \in SyncMemberSet |-> "none"], settled |-> {},
           grants |-> [m \in SyncMemberSet |-> 0],
           processedCount |-> 0, successCount |-> 0, errorCount |-> 0, reported |-> FALSE]
NoDist == [pc |-> "idle", members |-> <<>>, held |-> {}, k |-> 1,
           results |-> [m \in SyncMemberSet |-> "none"],
           successCount |-> 0, failCount |-> 0, reported |-> FALSE]

InitSyncIdle ==
  /\ guildMembers = SyncMemberSet
  /\ sync = NoSync
  /\ dist = NoDist

\* member.roles.cache.has(role.id)
HasRole(m, roleId) == <<m, roleId>> \in memberRoles

\* guild.members.cache.filter(member => memberIdsWithRole.has(member.id) &&
\* !member.roles.cache.has(role.id)), as an array (lines 1076-1087)
membersToAssign(listed) ==
  SelectSeq(SyncMembers, LAMBDA m : m \in guildMembers /\ m \in listed /\ ~HasRole(m, SyncRoleId))

\* batches.length and the members of batch b (lines 1089-1094)
NumBatches(array) == (Len(array) + BATCH_SIZE - 1) \div BATCH_SIZE
Batch(array, b) ==
  {array[j] : j \in {x \in 1..Len(array) : (b - 1) * BATCH_SIZE < x /\ x <= b * BATCH_SIZE}}
\* a round that starts every batch that is left
currentBatchesAllRemaining(array, i) == {b \in 1..NumBatches(array) : i < b}
\* batches.slice(i, i + CONCURRENT_BATCHES) (line 1104)
currentBatches(array, i) ==
  {b \in 1..NumBatches(array) : i < b /\ b <= i + CONCURRENT_BATCHES}

\* member.roles.add(role): refused for a member the platform rejects or who has left
AddSucceeds(m) == m \in guildMembers /\ Accepts(m)

\* fastAssignRoleToMembers up to the first round of batches (lines 1065-1103)
fastAssignStart(listed, fails) ==
  /\ sync.pc = "idle"
  /\ LET array == membersToAssign(listed)
         seen == [NoSync EXCEPT !.listed = listed, !.present = guildMembers,
                                !.held = {m \in SyncMemberSet : HasRole(m, SyncRoleId)}]
     IN sync' = IF fails THEN [seen EXCEPT !.pc = "failed"]
                ELSE IF Len(array) = 0 THEN [seen EXCEPT !.pc = "done"]
                ELSE [seen EXCEPT !.pc = "round", !.array = array]
  /\ UNCHANGED <<guildMembers, dist, memberRoles>>

\* a grant that is issued again after it was refused
rolesAddRetrying(m) ==
  /\ sync.pc = "round"
  /\ \E b \in currentBatches(sync.array, sync.i) : m \in Batch(sync.array, b)
  /\ sync.results[m] = "none"
  /\ sync' = [sync EXCEPT !.results[m] = IF AddSucceeds(m) THEN "ok" ELSE "none",
                           !.grants[m] = @ + 1]
  /\ memberRoles' = IF AddSucceeds(m) THEN memberRoles \cup {<<m, SyncRoleId>>} ELSE memberRoles
  /\ UNCHANGED <<guildMembers, dist>>

\* one member.roles.add of a batch of the current round is issued and settles
\* (lines 1109-1117); grants counts the calls made for the member
rolesAdd(m) ==
  /\ sync.pc = "round"
  /\ \E b \in currentBatches(sync.array, sync.i) : m \in Batch(sync.array, b)
  /\ sync.results[m] = "none"
  /\ sync' = [sync EXCEPT !.results[m] = IF AddSucceeds(m) THEN "ok" ELSE "fail",
                           !.grants[m] = @ + 1]
  /\ memberRoles' = IF AddSucceeds(m) THEN memberRoles \cup {<<m, SyncRoleId>>} ELSE memberRoles
  /\ UNCHANGED <<guildMembers, dist>>

\* batchResults.filter(r => r.status === 'fulfilled' && r.value.success).length (line 1120)
batchSuccessCount(results, batch) == Cardinality({m \in batch : results[m] = "ok"})
\* an accounting that counts only the rejected promises of Promise.allSettled
batchErrorCountRejectedOnly(results, batch) == 0
\* batchResults.length - batchSuccessCount (line 1121)
batchErrorCount(results, batch) == Cardinality(batch) - batchSuccessCount(results, batch)

\* the continuation of one batch after its Promise.allSettled (lines 1120-1132)
batchSettled(b) ==
  /\ sync.pc = "round"
  /\ b \in currentBatches(sync.array, sync.i)
  /\ b \notin sync.settled
  /\ \A m \in Batch(sync.array, b) : sync.results[m] # "none"
  /\ LET batch == Batch(sync.array, b)
     IN sync' = [sync EXCEPT !.settled = @ \cup {b},
                              !.successCount = @ + batchSuccessCount(sync.results, batch),
                              !.errorCount = @ + batchErrorCount(sync.results, batch),
                              !.processedCount = @ + Cardinality(batch)]
  /\ UNCHANGED <<guildMembers, dist, memberRoles>>

\* await Promise.all(batchPromises), then the pause or the final report (lines 1135-1149)
roundJoin ==
  /\ sync.pc = "round"
  /\ currentBatches(sync.array, sync.i) \subseteq sync.settled
  /\ sync' = IF sync.i + CONCURRENT_BATCHES < NumBatches(sync.array)
               THEN [sync EXCEPT !.pc = "pause"]
               ELSE [sync EXCEPT !.pc = "done", !.reported = TRUE]
  /\ UNCHANGED <<guildMembers, dist, memberRoles>>

\* the 100 ms setTimeout between two rounds is over (lines 1137-1139, 1103)
pauseOver ==
  /\ sync.pc = "pause"
  /\ sync' = [sync EXCEPT !.pc = "round", !.i = @ + CONCURRENT_BATCHES]
  /\ UNCHANGED <<guildMembers, dist, memberRoles>>

\* handleRoleDelete calls distributeRoleToMembersFromData with the members of
\* the deleted role, all of them in the guild (GuardManager lines 483, 1986-1991)
distributeStart(members) ==
  /\ dist.pc = "idle"
  /\ dist' = [NoDist EXCEPT !.pc = "loop",
                            !.members = SelectSeq(SyncMembers, LAMBDA m : m \in members /\ m \in guildMembers),
                            !.held = {m \in SyncMemberSet : HasRole(m, DistRoleId)}]
  /\ UNCHANGED <<guildMembers, sync, memberRoles>>

\* one iteration of the for loop, or the report after it (lines 1993-2006)
distributeStep ==
  /\ dist.pc = "loop"
  /\ IF dist.k > Len(dist.members)
       THEN /\ dist' = [dist EXCEPT !.pc = "done", !.reported = TRUE]
            /\ UNCHANGED memberRoles
       ELSE LET m == dist.members[dist.k]
                fetched == m \in guildMembers
                outcome == IF ~fetched THEN "fail"
                           ELSE IF HasRole(m, DistRoleId) THEN "skip"
                           ELSE IF AddSucceeds(m) THEN "ok" ELSE "fail"
            IN /\ dist' = [dist EXCEPT !.k = @ + 1, !.results[m] = outcome,
                                       !.successCount = @ + (IF outcome = "ok" THEN 1 ELSE 0),
                                       !.failCount = @ + (IF outcome = "fail" THEN 1 ELSE 0)]
               /\ memberRoles' = IF outcome = "ok" THEN memberRoles \cup {<<m, DistRoleId>>}
                                 ELSE memberRoles
  /\ UNCHANGED <<guildMembers, sync>>

\* a member leaves the guild while a sync is running
memberLeave(m) ==
  /\ m \in guildMembers
  /\ sync.pc \in {"round", "pause"} \/ dist.pc = "loop"
  /\ Cardinality(SyncMemberSet \ guildMembers) < MaxLeaves
  /\ guildMembers' = guildMembers \ {m}
  /\ memberRoles' = {g \in memberRoles : g[1] # m}
  /\ UNCHANGED <<sync, dist>>

othersSy == <<now, dbVars, configs, hvVars, backups, rejects, live, nextId, rsLast, saVars, guVars, ctVars, hvWrites, wcVars, lkVars, upVars, zVars>>

NextSync ==
  \/ \E listed \in ListedChoices, fails \in BOOLEAN : fastAssignStart(listed, fails) /\ UNCHANGED othersSy
  \/ \E m \in SyncMemberSet : rolesAdd(m) /\ UNCHANGED othersSy
  \/ \E b \in 1..Len(SyncMembers) : batchSettled(b) /\ UNCHANGED othersSy
  \/ roundJoin /\ UNCHANGED othersSy
  \/ pauseOver /\ UNCHANGED othersSy
  \/ \E members \in ListedChoices : distributeStart(members) /\ UNCHANGED othersSy
  \/ distributeStep /\ UNCHANGED othersSy
  \/ \E m \in SyncMemberSet : memberLeave(m) /\ UNCHANGED othersSy

InitSync ==
  /\ backups = <<>>
  /\ rejects \in SyncRejectChoices
  /\ live = {Original(e) : e \in Entities}
  /\ nextId = 1
  /\ \E holders \in HolderChoices : memberRoles = {<<m, SyncRoleId>> : m \in holders}
  /\ rsLast = NoOp
  /\ guildMembers = SyncMemberSet
  /\ sync = NoSync
  /\ dist = NoDist

(***************************************************************************)
(* The violation counter: RedisManager.get/set/incrementUserViolationCount *)
(* and the handlers of invite and webhook creation                         *)
(***************************************************************************)
NoKey == [val |-> 0, exp |-> 0]
\* the rows of the whitelist table the sub-checks look up, as cache keys
WlKeys == {[type |-> "user", targetId |-> "U1"], [type |-> "action", targetId |-> "role_delete"]}
\* whitelistCache.get(cacheKey) is undefined
NoCacheEntry == [has |-> FALSE, result |-> FALSE, timestamp |-> 0]
\* no statement of GuardManager inserts into guard_violations or calls
\* ElasticsearchManager.indexGuardViolation (lines 522-536): nothing is written
NoWrites == [table |-> 0, index |-> 0]
CreationTypes == {"invite", "webhook"}

\* the restoration keys of the entities the lock handlers guard
LockKeys == {"R1", "C1"}

\* the interval of performFullCleanup (startMonitoring line 277: 300 s) and
\* the delay of the release timers (lines 408 and 606: 5 s), scaled
FULL_CLEANUP_INTERVAL == 3
LOCK_RELEASE_DELAY == 1

\* the kinds of entity that have an update handler, and the fields of each
\* that the handlers and the restores read or write
UpKinds == {"role", "channel", "emoji", "sticker"}

FieldsOf(kind) ==
  CASE kind = "role" -> {"name", "color", "hoist", "mentionable", "permissions"}
    [] kind = "channel" -> {"name", "topic", "nsfw", "rateLimitPerUser"}
    [] kind = "emoji" -> {"name"}
    [] kind = "sticker" -> {"name", "description", "tags"}

\* a field holds one of two values; the entity as first backed up holds 0 in all
BaseValue(kind) == [f \in FieldsOf(kind) |-> 0]

NoUpdate == [kind |-> "", changed |-> FALSE, stage |-> "none", restore |-> FALSE,
             edited |-> FALSE, editOk |-> FALSE, violation |-> FALSE]

\* the state of the variables of the marker clock when nothing has been marked
NotStarted == [isRunning |-> FALSE, loading |-> 0, listeners |-> 0, intervals |-> 0,
               starts |-> 0, stops |-> 0]

InitLateIdle ==
  /\ markAt = [k \in LockKeys |-> -1]
  /\ engine = NotStarted
  /\ engineLog = <<>>

InitCounterIdle ==
  /\ InitLateIdle
  /\ redis = [u \in Users |-> NoKey]
  /\ ivHandlers = <<>>
  /\ hvWrites = NoWrites
  /\ whitelistCache = [k \in WlKeys |-> NoCacheEntry]
  /\ wlChecks = <<>>
  /\ wlFlipAt = [k \in WlKeys |-> -1]
  /\ lkHandlers = <<>>
  /\ lockAt = [k \in LockKeys |-> -1]
  /\ lockOwner = [k \in LockKeys |-> 0]
  /\ fullCleanupDue = FULL_CLEANUP_INTERVAL
  /\ upLive = [k \in UpKinds |-> BaseValue(k)]
  /\ upData = [k \in UpKinds |-> BaseValue(k)]
  /\ upLast = NoUpdate

\* client.get(key) of the user's key: null once the key's ttl has run out
\* (getUserViolationCount line 268: count ? parseInt(count) : 0)
getUserViolationCount(u) == IF redis[u].exp > now THEN redis[u].val ELSE 0

\* client.setEx(key, ttl, value) (RedisManager lines 87-98)
setEx(u, value, ttl) == [redis EXCEPT ![u] = [val |-> value, exp |-> now + ttl]]

\* the inviteCreate / webhookUpdate listener calls the handler, which runs to
\* its first await, getAuditLog (lines 245-256, 739-743, 891-895)
creationEvent(type, u) ==
  /\ Len(ivHandlers) < MaxCreations
  /\ ivHandlers' = Append(ivHandlers,
       [type |-> type, user |-> u, at |-> now, pc |-> "audit", read |-> 0, ret |-> 0,
        setAt |-> 0, out |-> "pending", dropped |-> FALSE, incremented |-> FALSE,
        violation |-> <<>>])
  /\ UNCHANGED redis

IvAt(i, pc) == i <= Len(ivHandlers) /\ ivHandlers[i].pc = pc
IvSet(i, h) == ivHandlers' = [ivHandlers EXCEPT ![i] = h]
IvResolve(h) == [h EXCEPT !.pc = "done", !.out = "resolved"]
\* an exception no try block of the handler encloses: the handler's promise rejects
IvReject(h) == [h EXCEPT !.pc = "done", !.out = "rejected"]

\* getAuditLog returned: null ends the handler, as do an executor that is the
\* bot or on the configured whitelist (lines 894-903, 743-752)
creationAudit(i, fails) ==
  /\ IvAt(i, "audit")
  /\ LET h == ivHandlers[i]
     IN IvSet(i, IF fails \/ isBotAction(h.user) \/ isWhitelisted(h.user)
                   THEN [IvResolve(h) EXCEPT !.dropped = TRUE]
                   ELSE [h EXCEPT !.pc = IF h.type = "invite" THEN "count" ELSE "webhooks"])
  /\ UNCHANGED redis

\* handleInviteCreate after getViolationCount: at the limit handleViolation is
\* called, which catches what it throws; below it the increment starts
\* (lines 905-917)
inviteCount(i, fails) ==
  /\ IvAt(i, "count")
  /\ LET h == ivHandlers[i]
         violationCount == getUserViolationCount(h.user)
     IN IvSet(i, IF fails THEN IvReject(h)
                 ELSE IF violationCount >= maxInviteCreations
                   THEN [IvResolve(h) EXCEPT !.violation =
                           <<h.user, "invite_create_limit_exceeded", "high">>]
                   ELSE [h EXCEPT !.pc = "incGet"])
  /\ UNCHANGED redis

\* incrementUserViolationCount: const count = await this.get(key) (lines 271-273)
incrementGet(i, fails) ==
  /\ IvAt(i, "incGet")
  /\ LET h == ivHandlers[i]
     IN IvSet(i, IF fails THEN IvReject(h)
                 ELSE [h EXCEPT !.pc = "incSet", !.read = getUserViolationCount(h.user)])
  /\ UNCHANGED redis

\* incrementUserViolationCount: newCount = count + 1; await this.set(key,
\* newCount, ttl); return newCount (lines 274-276)
incrementSet(i, fails) ==
  /\ IvAt(i, "incSet")
  /\ LET h == ivHandlers[i]
         newCount == h.read + 1
     IN IF fails
          THEN IvSet(i, IvReject(h)) /\ UNCHANGED redis
          ELSE /\ IvSet(i, [IvResolve(h) EXCEPT !.ret = newCount, !.setAt = now,
                                                !.incremented = TRUE])
               /\ redis' = setEx(h.user, newCount, VIOLATION_TTL)

\* handleWebhookUpdate: fetchWebhooks, the deletes and handleViolation inside
\* one try block (lines 754-771)
webhookRemove(i, fails) ==
  /\ IvAt(i, "webhooks")
  /\ LET h == ivHandlers[i]
     IN IvSet(i, IF fails THEN IvResolve(h)
                 ELSE [IvResolve(h) EXCEPT !.violation =
                         <<h.user, "webhook_create_blocked", "medium">>])
  /\ UNCHANGED redis

\* a second passes; the handlers take milliseconds, so none is in flight
TickCounter ==
  /\ now < MaxTime
  /\ \A i \in 1..Len(ivHandlers) : ivHandlers[i].pc = "done"
  /\ now' = now + 1

othersCt == <<dbVars, configs, hvVars, rsVars, saVars, guVars, syVars, hvWrites, wcVars, lkVars, upVars, zVars>>

NextCounter ==
  \/ \E type \in CreationTypes, u \in Users : creationEvent(type, u) /\ UNCHANGED <<now, othersCt>>
  \/ \E i \in 1..MaxCreations, fails \in BOOLEAN : creationAudit(i, fails) /\ UNCHANGED <<now, othersCt>>
  \/ \E i \in 1..MaxCreations, fails \in BOOLEAN : inviteCount(i, fails) /\ UNCHANGED <<now, othersCt>>
  \/ \E i \in 1..MaxCreations, fails \in BOOLEAN : incrementGet(i, fails) /\ UNCHANGED <<now, othersCt>>
  \/ \E i \in 1..MaxCreations, fails \in BOOLEAN : incrementSet(i, fails) /\ UNCHANGED <<now, othersCt>>
  \/ \E i \in 1..MaxCreations, fails \in BOOLEAN : webhookRemove(i, fails) /\ UNCHANGED <<now, othersCt>>
  \/ TickCounter /\ UNCHANGED <<ctVars, othersCt>>

(***************************************************************************)
(* The whitelist cache: isUserWhitelisted, isActionWhitelisted and         *)
(* isRoleWhitelisted share one body over whitelistCache                    *)
(***************************************************************************)
\* cached && Date.now() - cached.timestamp < WHITELIST_CACHE_TTL (lines 957, 975, 993)
CacheFresh(k) ==
  whitelistCache[k].has /\ now - whitelistCache[k].timestamp < WHITELIST_CACHE_TTL

\* a sub-check call up to its return from the cache or its await of
\* databaseManager.isWhitelisted (lines 953-962)
isCachedWhitelisted(k) ==
  /\ Len(wlChecks) < MaxChecks
  /\ wlChecks' = Append(wlChecks,
       IF CacheFresh(k)
         THEN [key |-> k, pc |-> "done", read |-> FALSE, result |-> whitelistCache[k].result,
               at |-> now, cached |-> TRUE, age |-> now - whitelistCache[k].timestamp,
               failed |-> FALSE]
         ELSE [key |-> k, pc |-> "read", read |-> FALSE, result |-> FALSE, at |-> now,
               cached |-> FALSE, age |-> 0, failed |-> FALSE])
  /\ UNCHANGED <<whitelistCache, wlFlipAt, wlStore>>

WlAt(i, pc) == i <= Len(wlChecks) /\ wlChecks[i].pc = pc

\* the store evaluates the query of check i; databaseManager.isWhitelisted
\* catches a failure of the query itself and returns false (DatabaseManager
\* lines 1240-1251), which is cached like any result
storeRead(i, fails) ==
  /\ WlAt(i, "read")
  /\ wlChecks' = [wlChecks EXCEPT ![i] =
       [@ EXCEPT !.pc = "set", !.failed = fails,
                 !.read = ~fails /\ dbIsWhitelisted(wlChecks[i].key.type,
                                                     wlChecks[i].key.targetId)]]
  /\ UNCHANGED <<whitelistCache, wlFlipAt, wlStore>>

\* the continuation after the await: whitelistCache.set(cacheKey, { result,
\* timestamp: Date.now() }); return result (lines 962-964)
cacheSet(i) ==
  /\ WlAt(i, "set")
  /\ whitelistCache' = [whitelistCache EXCEPT ![wlChecks[i].key] =
       [has |-> TRUE, result |-> wlChecks[i].read, timestamp |-> now]]
  /\ wlChecks' = [wlChecks EXCEPT ![i] = [@ EXCEPT !.pc = "done", !.result = wlChecks[i].read, !.at = now]]
  /\ UNCHANGED <<wlFlipAt, wlStore>>

\* cleanupWhitelistCache, run by setInterval (lines 1869-1880)
cleanupWhitelistCache ==
  /\ \E k \in WlKeys : whitelistCache[k].has /\ now - whitelistCache[k].timestamp > WHITELIST_CACHE_TTL
  /\ whitelistCache' = [k \in WlKeys |->
       IF whitelistCache[k].has /\ now - whitelistCache[k].timestamp > WHITELIST_CACHE_TTL
         THEN NoCacheEntry ELSE whitelistCache[k]]
  /\ UNCHANGED <<wlChecks, wlFlipAt, wlStore>>

\* the administrative layer activates or deactivates the row of key k, once
\* per key (WhitelistCommands; the engine only reads the table)
whitelistFlip(k) ==
  /\ wlFlipAt[k] = -1
  /\ wlStore' = IF k \in wlStore THEN wlStore \ {k} ELSE wlStore \cup {k}
  /\ wlFlipAt' = [wlFlipAt EXCEPT ![k] = now]
  /\ UNCHANGED <<whitelistCache, wlChecks>>

TickWhitelist ==
  /\ now < MaxTime
  /\ now' = now + 1

othersWc == <<dbVars, configs, hvVars, rsVars, saVars, syVars, ctVars, hvWrites,
              gEvents, gSeq, gUserOps, handlers, audit, restorationInProgress, lockTimers,
              recentRoleChanges, mutations, lkVars, upVars, zVars>>

NextWhitelist ==
  \/ \E k \in WlKeys : isCachedWhitelisted(k) /\ UNCHANGED <<now, othersWc>>
  \/ \E i \in 1..MaxChecks, fails \in BOOLEAN : storeRead(i, fails) /\ UNCHANGED <<now, othersWc>>
  \/ \E i \in 1..MaxChecks : cacheSet(i) /\ UNCHANGED <<now, othersWc>>
  \/ cleanupWhitelistCache /\ UNCHANGED <<now, othersWc>>
  \/ \E k \in WlKeys : whitelistFlip(k) /\ UNCHANGED <<now, othersWc>>
  \/ TickWhitelist /\ UNCHANGED <<wcVars, wlStore, othersWc>>

\* the window of the key's burst is over and nothing of it is still to run
Settled(k) ==
  /\ dbCalls[k] >= 1
  /\ now >= dbLast[k] + DEBOUNCE_DELAY
  /\ \A t \in dbTimers : t.key = k => t.due > now

(***************************************************************************)
(* Specifications                                                          *)
(***************************************************************************)
InitSpecDebounce ==
  /\ now = 0
  /\ InitSyncIdle
  /\ InitCounterIdle
  /\ InitDebounce
  /\ configs = createDefaultConfig
  /\ InitViolation
  /\ InitRestoreIdle
  /\ InitSelfActions
  /\ InitGuardIdle

SpecDebounce == InitSpecDebounce /\ [][NextDebounce]_vars

InitSpecViolation ==
  /\ now = 0
  /\ InitSyncIdle
  /\ InitCounterIdle
  /\ InitDebounce
  /\ InitViolation
  /\ InitRestoreIdle
  /\ InitSelfActions
  /\ InitGuardIdle
  /\ \E ov \in ActionLists, os \in ActionLists, ch \in BOOLEAN, ld \in BOOLEAN :
       configs = [createDefaultConfig EXCEPT !.onViolation = ov, !.onSuspiciousActivity = os,
                                             !.auditChannelId = ch, !.loaded = ld]

SpecViolation == InitSpecViolation /\ [][NextViolation]_vars

InitSpecRestore ==
  /\ now = 0
  /\ InitSyncIdle
  /\ InitCounterIdle
  /\ InitDebounce
  /\ configs = createDefaultConfig
  /\ InitViolation
  /\ InitRestore
  /\ InitSelfActions
  /\ InitGuardIdle

SpecRestore == InitSpecRestore /\ [][NextRestore]_vars

\* restores of deleted entities over MaxSnapshots backups
InitSpecPerform ==
  /\ now = 0
  /\ InitSyncIdle
  /\ InitCounterIdle
  /\ InitDebounce
  /\ configs = createDefaultConfig
  /\ InitViolation
  /\ InitPerform
  /\ InitSelfActions
  /\ InitGuardIdle

SpecPerform == InitSpecPerform /\ [][NextPerform]_vars

\* the full restore of the guild from one of its backups
InitSpecFullRestore ==
  /\ now = 0
  /\ InitSyncIdle
  /\ InitCounterIdle
  /\ InitDebounce
  /\ configs = createDefaultConfig
  /\ InitViolation
  /\ InitRestore
  /\ InitSelfActions
  /\ InitGuardIdle

SpecFullRestore == InitSpecFullRestore /\ [][NextFullRestore]_vars

InitSpecGuard ==
  /\ now = 0
  /\ InitSyncIdle
  /\ InitCounterIdle
  /\ InitDebounce
  /\ configs = createDefaultConfig
  /\ InitViolation
  /\ InitGuardPlatform
  /\ InitSelfActions
  /\ InitGuard

SpecGuard == InitSpecGuard /\ [][NextGuard]_vars

\* the guard handlers on a guild whose config may not have been loaded:
\* loadConfigurations (lines 73-88) catches a failure of the store and leaves
\* configs empty, and setupEventHandlers runs all the same
InitSpecGuardConfig ==
  /\ now = 0
  /\ InitSyncIdle
  /\ InitCounterIdle
  /\ InitDebounce
  /\ configs \in {createDefaultConfig, NoConfig}
  /\ InitViolation
  /\ InitGuardPlatform
  /\ InitSelfActions
  /\ InitGuardIdle

SpecGuardConfig == InitSpecGuardConfig /\ [][NextGuard]_vars

InitSpecSync ==
  /\ now = 0
  /\ InitCounterIdle
  /\ InitDebounce
  /\ configs = createDefaultConfig
  /\ InitViolation
  /\ InitSync
  /\ InitSelfActions
  /\ InitGuardIdle

SpecSync == InitSpecSync /\ [][NextSync]_vars

InitSpecCounter ==
  /\ now = 0
  /\ InitSyncIdle
  /\ InitCounterIdle
  /\ InitDebounce
  /\ \E wl \in {{}, {"U2"}} : configs = [createDefaultConfig EXCEPT !.whitelistUsers = wl]
  /\ InitViolation
  /\ InitRestoreIdle
  /\ InitSelfActions
  /\ InitGuardIdle

SpecCounter == InitSpecCounter /\ [][NextCounter]_vars

\* InitGuardIdle with the whitelist table drawn from the rows the checks look up
InitSpecWhitelist ==
  /\ now = 0
  /\ InitSyncIdle
  /\ InitCounterIdle
  /\ InitDebounce
  /\ configs = createDefaultConfig
  /\ InitViolation
  /\ InitRestoreIdle
  /\ InitSelfActions
  /\ gEvents = {} /\ gSeq = 1 /\ gUserOps = 0 /\ handlers = <<>>
  /\ audit = [t \in EventTypes |-> NoEntry]
  /\ restorationInProgress = {} /\ lockTimers = {} /\ recentRoleChanges = {}
  /\ mutations = {}
  /\ wlStore \in SUBSET WlKeys

SpecWhitelist == InitSpecWhitelist /\ [][NextWhitelist]_vars

(***************************************************************************)
(* The restoration lock over time: handleRoleUpdate (lines 344-411),       *)
(* handleChannelDelete (lines 575-609) and performFullCleanup.  A platform *)
(* call that never completes is an invocation that stays at its await.     *)
(***************************************************************************)
MaxLockTime == 7
MaxLockHandlers == 3

\* this.restorationInProgress.add(key) / delete(key) with the time of the taking
LockAdd(held, at, key) ==
  [set |-> held \cup {key},
   at |-> IF key \in held THEN at ELSE [at EXCEPT ![key] = now]]

LockDelete(held, at, key) ==
  [set |-> held \ {key}, at |-> [at EXCEPT ![key] = -1]]

LkAt(i, type, pc) ==
  /\ i \in DOMAIN lkHandlers
  /\ lkHandlers[i].type = type
  /\ lkHandlers[i].pc = pc

\* handleRoleUpdate up to its first await (lines 339-350): the lock is only read
lockRoleUpdate(key) ==
  /\ Len(lkHandlers) < MaxLockHandlers
  /\ key = "R1"
  /\ lkHandlers' = Append(lkHandlers,
                     [type |-> "roleUpdate", target |-> key,
                      pc |-> IF key \in restorationInProgress THEN "done" ELSE "checks"])
  /\ UNCHANGED <<restorationInProgress, lockAt, lockOwner, lockTimers, fullCleanupDue, now>>

\* handleRoleUpdate, lines 351-390: a gate drops the event, or the lock is
\* taken and restoreRoleFromBackup is awaited
lockRoleUpdateTake(i, drop) ==
  /\ LkAt(i, "roleUpdate", "checks")
  /\ IF drop
       THEN /\ lkHandlers' = [lkHandlers EXCEPT ![i].pc = "done"]
            /\ UNCHANGED <<restorationInProgress, lockAt, lockOwner>>
       ELSE LET L == LockAdd(restorationInProgress, lockAt, lkHandlers[i].target)
            IN /\ lkHandlers' = [lkHandlers EXCEPT ![i].pc = "call"]
               /\ restorationInProgress' = L.set
               /\ lockAt' = L.at
               /\ lockOwner' = [lockOwner EXCEPT ![lkHandlers[i].target] = i]
  /\ UNCHANGED <<lockTimers, fullCleanupDue, now>>

\* handleChannelDelete up to its first await (lines 570-580): the lock is
\* taken before the audit log is fetched
lockChannelDelete(key) ==
  /\ Len(lkHandlers) < MaxLockHandlers
  /\ key = "C1"
  /\ IF key \in restorationInProgress
       THEN /\ lkHandlers' = Append(lkHandlers, [type |-> "channelDelete", target |-> key, pc |-> "done"])
            /\ UNCHANGED <<restorationInProgress, lockAt, lockOwner>>
       ELSE LET L == LockAdd(restorationInProgress, lockAt, key)
            IN /\ lkHandlers' = Append(lkHandlers, [type |-> "channelDelete", target |-> key, pc |-> "audit"])
               /\ restorationInProgress' = L.set
               /\ lockAt' = L.at
               /\ lockOwner' = [lockOwner EXCEPT ![key] = Len(lkHandlers) + 1]
  /\ UNCHANGED <<lockTimers, fullCleanupDue, now>>

\* handleChannelDelete, lines 580-592: a gate deletes the lock and returns
\* through the finally block, or restoreDeletedChannel is awaited
lockChannelDeleteAudit(i, drop) ==
  /\ LkAt(i, "channelDelete", "audit")
  /\ IF drop
       THEN LET L == LockDelete(restorationInProgress, lockAt, lkHandlers[i].target)
            IN /\ lkHandlers' = [lkHandlers EXCEPT ![i].pc = "done"]
               /\ restorationInProgress' = L.set
               /\ lockAt' = L.at
               /\ lockOwner' = [lockOwner EXCEPT ![lkHandlers[i].target] = 0]
               /\ lockTimers' = lockTimers \cup
                    {[key |-> lkHandlers[i].target, due |-> now + LOCK_RELEASE_DELAY, by |-> i]}
       ELSE /\ lkHandlers' = [lkHandlers EXCEPT ![i].pc = "call"]
            /\ UNCHANGED <<restorationInProgress, lockAt, lockOwner, lockTimers>>
  /\ UNCHANGED <<fullCleanupDue, now>>

\* the awaited restore and handleViolation complete or throw: the finally
\* block arms the release (lines 406-410, 604-608)
lockCallReturns(i) ==
  /\ i \in DOMAIN lkHandlers
  /\ lkHandlers[i].pc = "call"
  /\ lkHandlers' = [lkHandlers EXCEPT ![i].pc = "done"]
  /\ lockTimers' = lockTimers \cup
       {[key |-> lkHandlers[i].target, due |-> now + LOCK_RELEASE_DELAY, by |-> i]}
  /\ UNCHANGED <<restorationInProgress, lockAt, lockOwner, fullCleanupDue, now>>

\* the callback of the release timer armed by invocation by:
\* restorationInProgress.delete(key)
lockTimerFires(key, due, by) ==
  /\ [key |-> key, due |-> due, by |-> by] \in lockTimers
  /\ due <= now
  /\ LET L == LockDelete(restorationInProgress, lockAt, key)
     IN restorationInProgress' = L.set /\ lockAt' = L.at
  /\ lockOwner' = [lockOwner EXCEPT ![key] = 0]
  /\ lockTimers' = lockTimers \ {[key |-> key, due |-> due, by |-> by]}
  /\ UNCHANGED <<lkHandlers, fullCleanupDue, now>>

\* a full cleanup that leaves the restoration locks alone
performFullCleanupKeepsLocks ==
  /\ now = fullCleanupDue
  /\ fullCleanupDue' = now + FULL_CLEANUP_INTERVAL
  /\ selfActions' = {}
  /\ whitelistCache' = [k \in WlKeys |-> NoCacheEntry]
  /\ UNCHANGED <<restorationInProgress, lockAt, lockOwner, lkHandlers, lockTimers, now, selfTimers>>

\* performFullCleanup (lines 1882-1893), run by the interval of startMonitoring
performFullCleanup ==
  /\ now = fullCleanupDue
  /\ fullCleanupDue' = now + FULL_CLEANUP_INTERVAL
  /\ selfActions' = {}
  /\ restorationInProgress' = {}
  /\ lockAt' = [k \in LockKeys |-> -1]
  /\ lockOwner' = [k \in LockKeys |-> 0]
  /\ whitelistCache' = [k \in WlKeys |-> NoCacheEntry]
  /\ UNCHANGED <<lkHandlers, lockTimers, now, selfTimers>>

\* a second passes; a timer or an interval that is due fires first
TickLock ==
  /\ now < MaxLockTime
  /\ \A t \in lockTimers : t.due > now
  /\ fullCleanupDue > now
  /\ now' = now + 1
  /\ UNCHANGED <<lkHandlers, restorationInProgress, lockAt, lockOwner, lockTimers, fullCleanupDue>>

othersLk == <<dbVars, configs, hvVars, rsVars, gEvents, gSeq, gUserOps, handlers, audit,
              recentRoleChanges, wlStore, mutations, syVars, ctVars, hvWrites, wlChecks, wlFlipAt,
              upVars, zVars>>

NextLock ==
  \/ \E key \in LockKeys : lockRoleUpdate(key) /\ UNCHANGED <<othersLk, saVars, whitelistCache>>
  \/ \E i \in 1..MaxLockHandlers, drop \in BOOLEAN :
        lockRoleUpdateTake(i, drop) /\ UNCHANGED <<othersLk, saVars, whitelistCache>>
  \/ \E key \in LockKeys : lockChannelDelete(key) /\ UNCHANGED <<othersLk, saVars, whitelistCache>>
  \/ \E i \in 1..MaxLockHandlers, drop \in BOOLEAN :
        lockChannelDeleteAudit(i, drop) /\ UNCHANGED <<othersLk, saVars, whitelistCache>>
  \/ \E i \in 1..MaxLockHandlers : lockCallReturns(i) /\ UNCHANGED <<othersLk, saVars, whitelistCache>>
  \/ \E key \in LockKeys, due \in 0..(MaxLockTime + LOCK_RELEASE_DELAY), by \in 1..MaxLockHandlers :
        lockTimerFires(key, due, by) /\ UNCHANGED <<othersLk, saVars, whitelistCache>>
  \/ performFullCleanup /\ UNCHANGED othersLk
  \/ TickLock /\ UNCHANGED <<othersLk, saVars, whitelistCache>>

InitSpecLock ==
  /\ now = 0
  /\ InitSyncIdle
  /\ InitCounterIdle
  /\ InitDebounce
  /\ configs = createDefaultConfig
  /\ InitViolation
  /\ InitRestoreIdle
  /\ InitSelfActions
  /\ InitGuardIdle

SpecLock == InitSpecLock /\ [][NextLock]_vars

(***************************************************************************)
(* The update handlers over the fields of the entity: handleRoleUpdate,    *)
(* handleChannelUpdate, handleEmojiUpdate, handleStickerUpdate and the     *)
(* restore...FromBackup each of them awaits.  One notification is handled  *)
(* at a time; passes is whether it gets past the gates that do not read    *)
(* the fields (config, self-action, lock, audit log, bot, whitelist).      *)
(***************************************************************************)
\* the values an entity takes: as backed up, or with one field changed
ValuesOf(kind) ==
  {v \in [FieldsOf(kind) -> {0, 1}] : Cardinality({f \in FieldsOf(kind) : v[f] = 1}) <= 1}

\* the comparison of oldX and newX the handler makes before it restores:
\* handleRoleUpdate lines 363-370, handleChannelUpdate lines 537-543; the
\* emoji and sticker handlers compare nothing (lines 634-653, 697-717)
DetectsChange(kind, old, new) ==
  CASE kind = "role" -> \E f \in {"name", "color", "hoist", "mentionable", "permissions"} : old[f] # new[f]
    [] kind = "channel" -> \E f \in {"name", "topic", "nsfw", "rateLimitPerUser"} : old[f] # new[f]
    [] kind = "emoji" -> TRUE
    [] kind = "sticker" -> TRUE

\* restoreRoleFromBackup line 1318: needsUpdate
needsUpdate(role, roleData) ==
  \E f \in {"name", "color", "hoist", "mentionable"} : role[f] # roleData[f]

\* whether restore<Kind>FromBackup issues its edit: the role's only when
\* needsUpdate, the others' always
IssuesEdit(kind, entity, data) ==
  IF kind = "role" THEN needsUpdate(entity, data) ELSE TRUE

\* the fields the edit call of restore<Kind>FromBackup sets from the backup
\* row (lines 1326-1332, 1504-1509, 1577-1580, 1647-1652)
EditFields(kind) ==
  CASE kind = "role" -> {"name", "color", "hoist", "permissions", "mentionable"}
    [] kind = "channel" -> {"name", "topic", "nsfw", "rateLimitPerUser"}
    [] kind = "emoji" -> {"name"}
    [] kind = "sticker" -> {"name", "description", "tags"}

EditFromBackup(kind, entity, data) ==
  [f \in FieldsOf(kind) |-> IF f \in EditFields(kind) THEN data[f] ELSE entity[f]]

\* a member changes the entity to new (new = the old fields when the change
\* is to a field the handlers do not track) and the update handler of the
\* kind runs; editOk is whether the platform accepts the engine's edit
updateEvent(kind, new, passes, editOk) ==
  LET old == upLive[kind]
      changed == \E f \in FieldsOf(kind) : old[f] # new[f]
      acts == passes /\ DetectsChange(kind, old, new)
      edits == acts /\ IssuesEdit(kind, new, upData[kind])
  IN /\ upLive' = [upLive EXCEPT ![kind] = IF edits /\ editOk
                                              THEN EditFromBackup(kind, new, upData[kind])
                                              ELSE new]
     /\ upLast' = [kind |-> kind, changed |-> changed,
                   stage |-> IF ~passes THEN "gate" ELSE IF ~acts THEN "nochange" ELSE "acted",
                   restore |-> acts, edited |-> edits, editOk |-> edits /\ editOk,
                   violation |-> acts]
     /\ UNCHANGED upData

othersUp == <<now, dbVars, configs, hvVars, rsVars, saVars, guVars, syVars, ctVars, hvWrites,
              wcVars, lkVars, zVars>>

NextUpdate ==
  \E kind \in UpKinds, passes \in BOOLEAN, editOk \in BOOLEAN :
    \E new \in ValuesOf(kind) : updateEvent(kind, new, passes, editOk) /\ UNCHANGED othersUp

InitSpecUpdate ==
  /\ now = 0
  /\ InitSyncIdle
  /\ redis = [u \in Users |-> NoKey]
  /\ ivHandlers = <<>>
  /\ hvWrites = NoWrites
  /\ whitelistCache = [k \in WlKeys |-> NoCacheEntry]
  /\ wlChecks = <<>>
  /\ wlFlipAt = [k \in WlKeys |-> -1]
  /\ lkHandlers = <<>>
  /\ lockAt = [k \in LockKeys |-> -1]
  /\ lockOwner = [k \in LockKeys |-> 0]
  /\ fullCleanupDue = FULL_CLEANUP_INTERVAL
  /\ InitLateIdle
  /\ upData \in [UpKinds -> UNION {ValuesOf(k) : k \in UpKinds}]
  /\ \A k \in UpKinds : upData[k] \in ValuesOf(k)
  /\ \A k \in {"channel", "emoji", "sticker"} : upData[k] = BaseValue(k)
  /\ upLive = upData
  /\ upLast = NoUpdate
  /\ InitDebounce
  /\ configs = createDefaultConfig
  /\ InitViolation
  /\ InitRestoreIdle
  /\ InitSelfActions
  /\ InitGuardIdle

SpecUpdate == InitSpecUpdate /\ [][NextUpdate]_vars

(***************************************************************************)
(* The self-action markers over time: markSelfAction, its timers and the   *)
(* full cleanup                                                            *)
(***************************************************************************)
MaxMarkTime == 12
MaxPendingMarks == 2

\* the engine marks key k before a mutating call on it (markSelfAction,
\* lines 1900-1907): the key is added and a timer that deletes it is armed
markKey(k) ==
  /\ Cardinality(selfTimers) < MaxPendingMarks
  /\ LET SA == markSelfAction(SelfState, k)
     IN selfActions' = SA.set /\ selfTimers' = SA.timers
  /\ markAt' = [markAt EXCEPT ![k] = now]
  /\ UNCHANGED <<now, fullCleanupDue>>

\* the callback of a marker's timer: selfActions.delete(key) (lines 1904-1906)
selfTimerFires(key, due) ==
  /\ [key |-> key, due |-> due] \in selfTimers
  /\ due <= now
  /\ selfActions' = selfActions \ {key}
  /\ selfTimers' = selfTimers \ {[key |-> key, due |-> due]}
  /\ UNCHANGED <<now, markAt, fullCleanupDue>>

\* a second passes; a timer or an interval that is due fires first
TickMarker ==
  /\ now < MaxMarkTime
  /\ \A t \in selfTimers : t.due > now
  /\ fullCleanupDue > now
  /\ now' = now + 1
  /\ UNCHANGED <<saVars, markAt, fullCleanupDue>>

othersMk == <<dbVars, configs, hvVars, rsVars, gEvents, gSeq, gUserOps, handlers, audit,
              recentRoleChanges, wlStore, mutations, syVars, ctVars, hvWrites, wlChecks, wlFlipAt,
              upVars, lkHandlers, lockTimers, engine, engineLog>>

NextMarker ==
  \/ \E k \in LockKeys : markKey(k) /\ UNCHANGED <<othersMk, restorationInProgress, lockAt, lockOwner, whitelistCache>>
  \/ \E key \in LockKeys, due \in 0..(MaxMarkTime + SELF_ACTION_TIMEOUT) :
        selfTimerFires(key, due) /\ UNCHANGED <<othersMk, restorationInProgress, lockAt, lockOwner, whitelistCache>>
  \/ performFullCleanup /\ UNCHANGED <<othersMk, markAt>>
  \/ TickMarker /\ UNCHANGED <<othersMk, restorationInProgress, lockAt, lockOwner, whitelistCache>>

InitSpecMarker ==
  /\ now = 0
  /\ InitSyncIdle
  /\ InitCounterIdle
  /\ InitDebounce
  /\ configs = createDefaultConfig
  /\ InitViolation
  /\ InitRestoreIdle
  /\ InitSelfActions
  /\ InitGuardIdle

SpecMarker == InitSpecMarker /\ [][NextMarker]_vars

(***************************************************************************)
(* GuardManager as a service: start, stop and the listeners they leave     *)
(***************************************************************************)
MaxStarts == 3
MaxStops == 2
MaxDeliveries == 2

\* start() up to its await of loadConfigurations (lines 54-60): a call on a
\* running engine returns
engineStart ==
  /\ engine.starts < MaxStarts
  /\ engine' = IF engine.isRunning
                 THEN [engine EXCEPT !.starts = @ + 1]
                 ELSE [engine EXCEPT !.starts = @ + 1, !.isRunning = TRUE, !.loading = @ + 1]
  /\ UNCHANGED <<engineLog, selfActions, restorationInProgress, lockAt, lockOwner, whitelistCache>>

\* start() after loadConfigurations has settled (lines 61-64): setupEventHandlers
\* adds one listener per event to the client, startMonitoring arms its intervals
engineStartLoaded ==
  /\ engine.loading > 0
  /\ engine' = [engine EXCEPT !.loading = @ - 1, !.listeners = @ + 1, !.intervals = @ + 1]
  /\ UNCHANGED <<engineLog, selfActions, restorationInProgress, lockAt, lockOwner, whitelistCache>>

\* stop() (lines 67-71): the flag is lowered and performFullCleanup clears the
\* maps; no listener is removed and no interval is cleared
engineStop ==
  /\ engine.stops < MaxStops
  /\ engine' = [engine EXCEPT !.stops = @ + 1, !.isRunning = FALSE]
  /\ selfActions' = {}
  /\ restorationInProgress' = {}
  /\ lockAt' = [k \in LockKeys |-> -1]
  /\ lockOwner' = [k \in LockKeys |-> 0]
  /\ whitelistCache' = [k \in WlKeys |-> NoCacheEntry]
  /\ UNCHANGED engineLog

\* the gateway delivers a roleCreate by a member who is not whitelisted: every
\* registered listener calls handleRoleCreate (lines 169-173), and each
\* invocation, the audit entry found, issues role.delete() (lines 316-336);
\* no handler reads isRunning
engineEvent ==
  /\ Len(engineLog) < MaxDeliveries
  /\ engineLog' = Append(engineLog,
       [isRunning |-> engine.isRunning, loading |-> engine.loading,
        invocations |-> engine.listeners,
        mutations |-> IF configs.loaded /\ configs.enabled THEN engine.listeners ELSE 0])
  /\ UNCHANGED <<engine, selfActions, restorationInProgress, lockAt, lockOwner, whitelistCache>>

othersEn == <<now, dbVars, configs, hvVars, rsVars, selfTimers, gEvents, gSeq, gUserOps, handlers,
              audit, recentRoleChanges, wlStore, mutations, syVars, ctVars, hvWrites, wlChecks,
              wlFlipAt, upVars, lkHandlers, lockTimers, fullCleanupDue, markAt>>

NextEngine ==
  \/ engineStart /\ UNCHANGED othersEn
  \/ engineStartLoaded /\ UNCHANGED othersEn
  \/ engineStop /\ UNCHANGED othersEn
  \/ engineEvent /\ UNCHANGED othersEn

InitSpecEngine ==
  /\ now = 0
  /\ InitSyncIdle
  /\ InitCounterIdle
  /\ InitDebounce
  /\ configs = createDefaultConfig
  /\ InitViolation
  /\ InitRestoreIdle
  /\ InitSelfActions
  /\ InitGuardIdle

SpecEngine == InitSpecEngine /\ [][NextEngine]_vars

(***************************************************************************)
(* Claims                                                                  *)
(***************************************************************************)
\* C1: for N >= 1 createAuditEvent calls with one fingerprint inside the 1s
\* window, exactly one action has fired once the window has settled.
C1_ExactlyOnePerBurst ==
  \A k \in DebounceKeys : Settled(k) => dbFired[k] = 1

\* C10: the onViolation list is executed for severity critical or high, the
\* onSuspiciousActivity list for medium or low.
C10_ListBySeverity ==
  (hvPc # "idle" /\ configs.loaded) =>
    hvActions = IF hvArgs.severity \in {"critical", "high"}
                  THEN configs.onViolation ELSE configs.onSuspiciousActivity

\* C8: restoring the same (snapshot, entityId) twice in sequence leaves the
\* live state the first restore left: the second restoreRole / restoreChannel /
\* restoreEmoji / restoreSticker call creates no additional live entity.
C8_RestoreTwiceSameAsOnce ==
  (rsLast.op = "api" /\ rsLast.repeat) => live = rsLast.before

\* C7: for a role, channel, emoji or sticker that was deleted, is absent from
\* the latest snapshot and present in one of the 10 most recent ones, the
\* restore of the deleted entity falls back to an older snapshot and ends in
\* success (the platform rejecting nothing).
C7_FallbackSucceeds ==
  \A e \in Entities :
    ( /\ rsLast.op = "guard" /\ rsLast.backupId = "" /\ rsLast.target = e
      /\ rejects = {}
      /\ Original(e) \notin live
      /\ ~HasData(getLatestBackup.id, e)
      /\ \E i \in DOMAIN getBackupsByGuild : e \in getBackupsByGuild[i].has )
    => /\ rsLast.ok
       /\ rsLast.note = "success"
       /\ \E x \in live : x.name = e

\* the calls handler invocation i has issued
MutationsBy(i) == {m \in mutations : m.by = i}

\* C2: when the same role-delete notification is delivered twice, exactly one
\* role creation call is issued for that deletion.
C2_OneRecreationPerDeletion ==
  \A i \in DOMAIN handlers, j \in DOMAIN handlers :
    ( /\ i < j
      /\ handlers[i].type = "roleDelete"
      /\ handlers[j].type = "roleDelete"
      /\ handlers[i].event = handlers[j].event )
    => ~ /\ \E m \in MutationsBy(i) : m.call = "create"
         /\ \E m \in MutationsBy(j) : m.call = "create"

\* C3: every create, edit or delete call the engine issues is preceded, in the
\* same handler, by markSelfAction for the entity being mutated.
C3_MarkedBeforeMutation ==
  \A m \in mutations : m.marked

\* C4: the echo of a mutation the engine issued, delivered while its marker is
\* live, ends at the self check as dropped: it raises no violation and
\* issues no mutation.
C4_EchoDroppedAtSelfCheck ==
  \A i \in DOMAIN handlers :
    (handlers[i].echo /\ handlers[i].marked)
    => /\ handlers[i].pc = "done"
       /\ handlers[i].exit = "self"
       /\ handlers[i].violation = <<>>
       /\ MutationsBy(i) = {}

\* C5: a handler whose audit attribution names the engine itself as executor
\* issues no mutation and raises no violation.
C5_BotExecutorDropped ==
  \A i \in DOMAIN handlers :
    isBotAction(handlers[i].executor)
    => handlers[i].violation = <<>> /\ MutationsBy(i) = {}

\* C6: a handler whose executor matches an active whitelist entry of the
\* store (as user, by the event's action, or by a role held) raises no
\* violation and restores nothing.
C6_StoreWhitelistDrops ==
  \A i \in DOMAIN handlers :
    ( /\ handlers[i].executor \in Users
      /\ checkWhitelist(handlers[i].executor, ActionName(handlers[i].type)) )
    => /\ handlers[i].violation = <<>>
       /\ MutationsBy(i) = {}
       /\ handlers[i].pc \notin {"restore", "violate"}

\* a role-update or channel-delete remediation that has started and not completed
InFlight(i) ==
  /\ handlers[i].type \in {"roleUpdate", "channelDelete"}
  /\ handlers[i].pc \in {"restore", "violate"}

\* C9: at any time at most one remediation is in flight per target.
C9_OneRemediationPerTarget ==
  \A i \in DOMAIN handlers, j \in DOMAIN handlers :
    (i # j /\ handlers[i].target = handlers[j].target) => ~(InFlight(i) /\ InFlight(j))

\* the members a sync started with had to serve: listed in the snapshot, in the
\* guild, and not holding the role when the sync computed its targets
SyncTargets(listed, present, held) == (listed \cap present) \ held

\* C11: when a bulk role sync reports, success + failure equals the number of
\* target members, every target is counted once as a success or a failure, and
\* no member that already held the role is counted, whatever the order in
\* which the grants and the batches of a round complete.
C11_BatchAccounting ==
  /\ \A b \in sync.settled :
        \A m \in Batch(sync.array, b) : sync.results[m] # "none"
  /\ sync.successCount + sync.errorCount = sync.processedCount
  /\ sync.reported =>
       /\ sync.successCount + sync.errorCount
            = Cardinality(SyncTargets(sync.listed, sync.present, sync.held))
       /\ sync.successCount = Cardinality({m \in SyncMemberSet : sync.results[m] = "ok"})
       /\ sync.errorCount = Cardinality({m \in SyncMemberSet : sync.results[m] = "fail"})
       /\ \A m \in sync.held : sync.results[m] = "none"
  /\ dist.reported =>
       /\ dist.successCount + dist.failCount
            = Cardinality(SyncTargets({dist.members[j] : j \in 1..Len(dist.members)},
                                      SyncMemberSet, dist.held))
       /\ \A m \in dist.held : dist.results[m] \notin {"ok", "fail"}

\* C11 witness: a sync over two rounds of concurrent batches has reported
\* with a failed grant and a member that already held the role, and a
\* sequential distribution has reported with a failure.
C11_Witness ==
  /\ sync.reported
  /\ sync.errorCount >= 1
  /\ sync.successCount >= 1
  /\ sync.held # {}
  /\ NumBatches(sync.array) > CONCURRENT_BATCHES
  /\ dist.reported
  /\ dist.failCount >= 1

\* C12: no handler invocation ends with its promise rejected, whichever of its
\* external calls fails.
C12_NoHandlerRejects ==
  \A i \in 1..Len(ivHandlers) : ivHandlers[i].out # "rejected"

\* C16: two increments of one user's counter made in the same second (so the
\* key cannot have expired between them) return distinct values, and the
\* stored count is at least the number of increments made in this second.
C16_AtomicIncrement ==
  /\ \A i, j \in 1..Len(ivHandlers) :
        (/\ i < j
         /\ ivHandlers[i].incremented /\ ivHandlers[j].incremented
         /\ ivHandlers[i].user = ivHandlers[j].user
         /\ ivHandlers[i].setAt = ivHandlers[j].setAt)
        => ivHandlers[i].ret # ivHandlers[j].ret
  /\ \A u \in Users :
        getUserViolationCount(u) >=
          Cardinality({i \in 1..Len(ivHandlers) :
                         /\ ivHandlers[i].incremented
                         /\ ivHandlers[i].user = u
                         /\ ivHandlers[i].setAt = now})

\* the creation events of handler i's actor inside the time window that ends
\* with handler i's event, that event included
RecentCreations(i) ==
  {j \in 1..i : /\ ivHandlers[j].user = ivHandlers[i].user
                /\ ~ivHandlers[j].dropped
                /\ ivHandlers[j].at > ivHandlers[i].at - timeWindow}

\* C17: every invite or webhook creation by a non-whitelisted actor that the
\* handler has processed incremented the actor's counter; it raised a
\* *_limit_exceeded violation at severity high exactly when the actor's
\* creations inside the time window exceed the threshold.
C17_CreationRateLimit ==
  \A i \in 1..Len(ivHandlers) :
    LET h == ivHandlers[i]
        exceeded == h.violation # <<>> /\ h.violation[3] = "high"
                    /\ h.violation[2] \in {"invite_create_limit_exceeded",
                                            "webhook_create_limit_exceeded"}
    IN (h.pc = "done" /\ h.out = "resolved" /\ ~h.dropped) =>
         /\ h.incremented
         /\ exceeded <=> (Cardinality(RecentCreations(i)) > maxInviteCreations)

\* the create calls handler i has issued
CreatesBy(i) == {m \in MutationsBy(i) : m.call = "create"}

C14_OneSummaryPerViolation ==
  hvPosts <= 1

\* C19: handleViolation calls executeAction for the actions of its list in
\* list order, and once the loop is over every action of the list has been
\* called, whichever of them failed.
C19_ActionsInOrderDespiteFailure ==
  /\ Len(hvTrace) <= Len(hvActions)
  /\ \A k \in 1..Len(hvTrace) : hvTrace[k].action = hvActions[k]
  /\ (hvPc \in {"notify", "done"} /\ configs.loaded) => Len(hvTrace) = Len(hvActions)

\* C19 witness: a call is over in which an action failed and a later action
\* of the list was executed.
C19_Witness ==
  /\ hvPc = "done"
  /\ \E k \in 1..Len(hvTrace) : \E l \in 1..Len(hvTrace) :
        k < l /\ ~hvTrace[k].ok /\ hvTrace[l].ok

\* C20: once handleViolation has acted on a violation, the violation has been
\* written once to the guard_violations table and once to the search index.
C20_ViolationPersisted ==
  /\ hvWrites.table <= 1
  /\ hvWrites.index <= 1
  /\ (hvPc = "done" /\ configs.loaded) => (hvWrites.table = 1 /\ hvWrites.index = 1)

\* C18: a result served from the cache is younger than the TTL, a positive
\* as a negative one; and a check that returns at or after t + TTL, t being
\* the time the key's row was deactivated, does not return true.
C18_CacheNeverOutlivesTtl ==
  \A i \in 1..Len(wlChecks) :
    LET c == wlChecks[i]
        t == wlFlipAt[c.key]
    IN c.pc = "done" =>
         /\ c.cached => c.age < WHITELIST_CACHE_TTL
         /\ (t # -1 /\ c.key \notin wlStore /\ c.at >= t + WHITELIST_CACHE_TTL) => ~c.result

\* the positions of the create calls of the latest restore that carry name n
CreatedAs(n) == {k \in 1..Len(rsLast.calls) : rsLast.calls[k].call = "create" /\ rsLast.calls[k].name = n}

\* C15: a restore of the deleted channel C1 whose category P1 is not live,
\* from a snapshot that holds both and with the platform accepting both,
\* creates P1, after it C1 under P1's new id, and under that id every other
\* child of P1 in the snapshot that is not live.
C15_ParentThenChildren ==
  ( /\ rsLast.op # ""
    /\ rsLast.target = "C1"
    /\ Original("C1") \notin live
    /\ Original("P1") \notin live
    /\ Len(rsLast.tried) >= 1
    /\ HasData(rsLast.tried[1], "C1")
    /\ HasData(rsLast.tried[1], "P1")
    /\ Accepts("P1") /\ Accepts("C1") )
  => \E p \in CreatedAs("P1") :
       /\ \E c \in CreatedAs("C1") :
            p < c /\ rsLast.calls[c].parent = rsLast.calls[p].id
       /\ \A s \in {x \in Entities : ParentOf(x) = "P1" /\ x # "C1"} :
            (HasData(rsLast.tried[1], s) /\ Original(s) \notin live /\ Accepts(s))
            => \E k \in CreatedAs(s) : rsLast.calls[k].parent = rsLast.calls[p].id

\* C15 witness: C1 was restored while P1 and its other child C2 were not
\* live, and the restore has created all three.
C15_Witness ==
  /\ rsLast.target = "C1"
  /\ Original("C1") \notin live
  /\ Original("P1") \notin live
  /\ Original("C2") \notin live
  /\ CreatedAs("P1") # {}
  /\ CreatedAs("C1") # {}
  /\ CreatedAs("C2") # {}

\* C21: while the guild has no config loaded, no guard handler issues a
\* mutating platform call and none raises a violation
C21_NoConfigNoAction ==
  ~configs.loaded =>
    /\ mutations = {}
    /\ \A i \in DOMAIN handlers : handlers[i].violation = <<>>

\* C22: a full restore answers success only when every entity of the backup
\* was restored: each is live again under the name the backup records
C22_FullRestoreSuccessIsReal ==
  (rsLast.op = "full" /\ rsLast.ok) =>
    \A e \in BackupById(rsLast.backupId).has :
      \E x \in live : x.name = DataName(rsLast.backupId, e) /\ x.kind = KindOf(e)

\* C23: when two updates of one role by one executor are notified within the
\* coalescing window and one remediation is performed for them, the
\* remediation covers the more recent update: the role ends with the values
\* of the backup.  (The clock stands still in SpecGuard, so every
\* notification is within the window of the one before.)
C23_RemediationActsOnLatest ==
  \A i, j \in DOMAIN handlers :
    ( /\ handlers[i].type = "roleUpdate" /\ handlers[j].type = "roleUpdate"
      /\ handlers[i].target = handlers[j].target
      /\ ~handlers[i].echo /\ ~handlers[j].echo
      /\ handlers[i].event < handlers[j].event
      /\ handlers[i].pc = "done" /\ handlers[i].exit = "acted"
      /\ handlers[j].pc = "done"
      /\ handlers[j].exit \in {"self", "lock", "recent", "recentchange"}
      /\ \/ handlers[j].executor = handlers[i].executor
         \/ handlers[j].executor = "" /\ audit["roleUpdate"].executor = handlers[i].executor
      /\ IsLive(World, handlers[i].target) )
    => LiveOf(World, handlers[i].target).name
         = DataName(getLatestBackup.id, handlers[i].target)

\* the position of a backup in the table, newest first
BackupPos(id) == CHOOSE i \in DOMAIN backups : backups[i].id = id

RECURSIVE AttemptsOf(_, _)
AttemptsOf(tried, roleId) ==
  IF tried = <<>> THEN <<>>
  ELSE roleAttempts(Head(tried), roleId) \o AttemptsOf(Tail(tried), roleId)

\* C24 (the order of the candidates): the restore of a deleted role calls the
\* restore method on the hinted backup, else the latest, and then on the
\* other recent backups from newest to oldest, each once
C24_CandidateOrder ==
  (rsLast.op = "guard" /\ KindOf(rsLast.target) = "role" /\ rsLast.tried # <<>>) =>
    /\ rsLast.tried[1] = IF rsLast.backupId # "" THEN rsLast.backupId ELSE getLatestBackup.id
    /\ Len(rsLast.tried) <= RECENT_LIMIT + 1
    /\ \A k, l \in 2..Len(rsLast.tried) :
         k < l => BackupPos(rsLast.tried[k]) < BackupPos(rsLast.tried[l])
    /\ \A k \in 2..Len(rsLast.tried) : rsLast.tried[k] # rsLast.tried[1]

\* C24 (the end of the search): a failed search has called the method on
\* every recent backup and announces the failure; a successful one announces
\* the success
C24_StopsAndReports ==
  (rsLast.op = "guard" /\ KindOf(rsLast.target) = "role" /\ rsLast.tried # <<>>) =>
    /\ rsLast.note = IF rsLast.ok THEN "success" ELSE "failure"
    /\ ~rsLast.ok => \A i \in DOMAIN backups : \E k \in DOMAIN rsLast.tried :
                        rsLast.tried[k] = backups[i].id

\* C24: the restore of a deleted role attempts each candidate backup at most
\* once: no backup's role data is used for more than one create or edit
C24_OneAttemptPerCandidate ==
  (rsLast.op = "guard" /\ KindOf(rsLast.target) = "role") =>
    LET att == AttemptsOf(rsLast.tried, rsLast.target)
    IN \A k, l \in DOMAIN att : k # l => att[k] # att[l]

\* the batches of the running sync whose grants have been issued and whose
\* continuation has not run
BatchesInFlight ==
  IF sync.pc = "round" THEN currentBatches(sync.array, sync.i) \ sync.settled ELSE {}

\* the first batch of the group batch b belongs to, less one
GroupStart(b) == ((b - 1) \div CONCURRENT_BATCHES) * CONCURRENT_BATCHES

\* C25: at most CONCURRENT_BATCHES batches are in flight; the batches
\* partition the targets, each of BATCH_SIZE members but possibly the last; no
\* grant of a group is issued before every batch of the groups before it has
\* completed; the pause is taken only when another group follows.
C25_BatchesAndGroups ==
  /\ Cardinality(BatchesInFlight) <= CONCURRENT_BATCHES
  /\ \A b \in 1..NumBatches(sync.array) :
        /\ Cardinality(Batch(sync.array, b)) <= BATCH_SIZE
        /\ Cardinality(Batch(sync.array, b)) >= 1
        /\ b < NumBatches(sync.array) => Cardinality(Batch(sync.array, b)) = BATCH_SIZE
        /\ \A c \in 1..NumBatches(sync.array) :
              b # c => Batch(sync.array, b) \cap Batch(sync.array, c) = {}
  /\ \A j \in 1..Len(sync.array) : \E b \in 1..NumBatches(sync.array) :
        sync.array[j] \in Batch(sync.array, b)
  /\ \A b \in 1..NumBatches(sync.array) :
        (\E m \in Batch(sync.array, b) : sync.grants[m] > 0)
          => \A c \in 1..GroupStart(b) : c \in sync.settled
  /\ sync.pc = "pause" =>
        /\ sync.i + CONCURRENT_BATCHES < NumBatches(sync.array)
        /\ \A c \in 1..(sync.i + CONCURRENT_BATCHES) : c \in sync.settled

\* C25 witness: a sync of more batches than run concurrently, the last one
\* not full, has paused between its groups, and the same sync has reported.
C25_Witness ==
  /\ NumBatches(sync.array) > CONCURRENT_BATCHES
  /\ Len(sync.array) % BATCH_SIZE # 0
  /\ \/ sync.pc = "pause"
     \/ sync.reported

\* C26: no member is granted twice, a member that is no target is never
\* granted, and a sync that has started its grants runs to its report, where
\* every target has had exactly one grant call, whether it failed or not.
C26_OneGrantPerTarget ==
  /\ \A m \in SyncMemberSet :
        /\ sync.grants[m] <= 1
        /\ m \notin SyncTargets(sync.listed, sync.present, sync.held) => sync.grants[m] = 0
        /\ sync.results[m] # "none" => sync.grants[m] = 1
  /\ sync.pc = "failed" => \A m \in SyncMemberSet : sync.grants[m] = 0
  /\ sync.reported =>
        \A m \in SyncTargets(sync.listed, sync.present, sync.held) :
           sync.grants[m] = 1 /\ sync.results[m] \in {"ok", "fail"}

\* C26 witness: a sync has reported after a grant failed in its first group
\* and grants of the same batch and of a later group were made.
C26_Witness ==
  /\ sync.reported
  /\ NumBatches(sync.array) > CONCURRENT_BATCHES
  /\ \E m \in Batch(sync.array, 1) : sync.results[m] = "fail"
  /\ \E m \in Batch(sync.array, 1) : sync.results[m] = "ok"
  /\ \E m \in Batch(sync.array, NumBatches(sync.array)) : sync.results[m] = "ok"

\* C27: no restoration lock is held longer than the interval of the full
\* cleanup, whether or not the call made under it ever completes.
C27_LockReleasedInBoundedTime ==
  \A k \in LockKeys :
    /\ (k \in restorationInProgress) = (lockAt[k] >= 0)
    /\ lockAt[k] >= 0 => now - lockAt[k] <= FULL_CLEANUP_INTERVAL

\* C27 witness: the call of an invocation that took the lock has not
\* completed, no release timer was armed for it, and its lock has been
\* released.
C27_Witness ==
  \E i \in DOMAIN lkHandlers :
    /\ lkHandlers[i].pc = "call"
    /\ \A j \in DOMAIN lkHandlers : j # i => lkHandlers[j].target # lkHandlers[i].target
    /\ lkHandlers[i].target \notin restorationInProgress

\* C28: a restore of an entity that is live under the id asked for issues no
\* create call for that entity (a restore leaves a live entity live, so the
\* entity was live when the restore began; the rows of the backups carry the
\* entity's id as its name).
C28_NoCreateWhenLive ==
  (rsLast.op \in {"api", "guard"} /\ IsLive(Platform, rsLast.target)) =>
    \A k \in DOMAIN rsLast.calls :
      ~(rsLast.calls[k].call = "create" /\ rsLast.calls[k].name = rsLast.target)

\* C29: after restoreRoleFromBackup has run for the live role without a
\* failed edit, every field of the role equals the value of the latest
\* backup; in particular the edit is skipped only when all of them match.
C29_RoleFieldsRestored ==
  (upLast.kind = "role" /\ upLast.restore /\ (upLast.edited => upLast.editOk)) =>
    \A f \in {"name", "color", "hoist", "mentionable", "permissions"} :
      upLive["role"][f] = upData["role"][f]

\* C30: an update notification whose tracked fields are the same before and
\* after is dropped: no restore is run and no violation is raised for it.
C30_UnchangedUpdateDropped ==
  (upLast.stage # "none" /\ ~upLast.changed) => (~upLast.restore /\ ~upLast.violation)

\* C31: a handler makes at most one audit lookup; when the lookup returned
\* nothing a role-delete handler goes on to recreate the role and names the
\* actor "unknown", and a handler of any other kind ends there without a
\* mutation and without a violation.
C31_OneLookupAndItsFallback ==
  \A i \in DOMAIN handlers :
    /\ handlers[i].lookups <= 1
    /\ (handlers[i].lookups = 1 /\ handlers[i].executor = "") =>
         IF handlers[i].type = "roleDelete"
           THEN /\ \E m \in mutations : m.by = i /\ m.call = "create"
                /\ handlers[i].exit # "noaudit"
                /\ handlers[i].pc = "done" => handlers[i].violation[1] = "unknown"
           ELSE /\ handlers[i].pc = "done" /\ handlers[i].exit = "noaudit"
                /\ \A m \in mutations : m.by # i
                /\ handlers[i].violation = <<>>

\* C31 witness: a role-delete handler whose lookup returned nothing has ended
\* with the actor "unknown", and a handler of another kind was dropped for
\* want of an audit entry.
C31_Witness ==
  /\ \E i \in DOMAIN handlers :
        /\ handlers[i].type = "roleDelete" /\ handlers[i].lookups = 1
        /\ handlers[i].executor = "" /\ handlers[i].pc = "done"
        /\ handlers[i].violation # <<>>
  /\ \E j \in DOMAIN handlers :
        handlers[j].type # "roleDelete" /\ handlers[j].exit = "noaudit"

\* C32: when a restore of a deleted channel (one that is not live when the
\* restore starts) sends its notification, the notification says success
\* exactly when the restore re-created the channel.
C32_NotificationMatchesOutcome ==
  [][ (rsLast'.op = "guard" /\ KindOf(rsLast'.target) = "channel" /\ rsLast'.note # ""
        /\ ~IsLive(Platform, rsLast'.target)) =>
      ( rsLast'.note = "success"
          <=> \E k \in DOMAIN rsLast'.calls :
                 rsLast'.calls[k].call = "create" /\ rsLast'.calls[k].name = rsLast'.target )
    ]_vars

\* C33: a whitelist sub-check whose store lookup failed returns false, and
\* the step in which it returns writes nothing to the whitelist cache.
C33_FailedLookupNotCached ==
  [][ \A i \in 1..Len(wlChecks) :
        (wlChecks[i].failed /\ wlChecks[i].pc # "done" /\ wlChecks'[i].pc = "done") =>
          /\ ~wlChecks'[i].result
          /\ whitelistCache' = whitelistCache
    ]_vars

\* C34: a key marked as a self-action at time t is still marked at every
\* moment before t + SELF_ACTION_TIMEOUT.
C34_MarkerLivesItsTimeout ==
  \A k \in LockKeys :
    (markAt[k] # -1 /\ now < markAt[k] + SELF_ACTION_TIMEOUT) => isSelfAction(k)

\* C35: a fingerprint that has no timer pending and no timer callback
\* running has no entry in the debounce map.
C35_NoTimerNoEntry ==
  \A k \in DebounceKeys :
    ((\A t \in dbTimers : t.key # k) /\ k \notin dbSaving) => k \notin debounceMap

\* the handlers have all returned and no notification of a member's change
\* is waiting to be delivered
GuardQuiet ==
  /\ \A i \in DOMAIN handlers : handlers[i].pc = "done"
  /\ \A e \in gEvents : e.echo

\* C36: once the engine is quiet, every change of a tracked field of a live
\* role by a member (nobody being whitelisted) whose notification reached
\* handleRoleUpdate with the audit entry available has been followed by an
\* edit of that role issued after the change.
C36_EveryRoleChangeCorrected ==
  ( /\ GuardQuiet
    /\ \A u \in Users : ~isWhitelisted(u) /\ ~checkWhitelist(u, "role_update") )
  => \A j \in DOMAIN handlers :
       ( /\ handlers[j].type = "roleUpdate"
         /\ ~handlers[j].echo
         /\ handlers[j].changed
         /\ handlers[j].exit \in {"acted", "self", "lock", "recent", "recentchange"}
         /\ IsLive(World, handlers[j].target) )
       => \E m \in mutations :
            m.call = "edit" /\ m.id = handlers[j].target /\ m.seen > handlers[j].event

\* C37: one restoreChannel call issues at most one create per channel of the
\* snapshot, the requested channel included.
C37_OneCreatePerChannel ==
  (rsLast.op = "api" /\ KindOf(rsLast.target) = "channel") =>
    \A e \in BackupById(rsLast.backupId).has :
      Cardinality(CreatedAs(DataName(rsLast.backupId, e))) <= 1

\* C38: a violation raised by a handler whose audit lookup named an executor
\* carries that executor as its user.
C38_ViolationNamesExecutor ==
  \A i \in DOMAIN handlers :
    (handlers[i].executor # "" /\ handlers[i].violation # <<>>) =>
      handlers[i].violation[1] = handlers[i].executor

\* C39: an event delivered while the engine is running and started is handled
\* by exactly one invocation; an event delivered while it is not running is
\* handled by none and draws no mutation; and the listeners and the intervals
\* are registered at most once.
C39_OneInvocationWhileRunning ==
  /\ \A k \in DOMAIN engineLog :
       /\ (engineLog[k].isRunning /\ engineLog[k].loading = 0) => engineLog[k].invocations = 1
       /\ ~engineLog[k].isRunning =>
            (engineLog[k].invocations = 0 /\ engineLog[k].mutations = 0)
  /\ engine.listeners <= 1
  /\ engine.intervals <= 1

\* C40: a step that is not the full cleanup removes a restoration lock only
\* as the release of the invocation that took it: the early exit of that
\* invocation, or the timer that invocation armed.
C40_LockReleasedByOwner ==
  [][ \A k \in LockKeys :
        (k \in restorationInProgress /\ k \notin restorationInProgress'
           /\ fullCleanupDue' = fullCleanupDue) =>
          \/ \E t \in lockTimers \ lockTimers' : t.key = k /\ t.by = lockOwner[k]
          \/ /\ lockOwner[k] \in DOMAIN lkHandlers
             /\ lkHandlers[lockOwner[k]].pc = "audit"
             /\ lkHandlers'[lockOwner[k]].pc = "done"
    ]_vars

=============================================================================
